---------------------------- MODULE Spec2Model ----------------------------
(***************************************************************************)
(* Model of the resource-estimation engine of orquestra-qre                *)
(* (quantumMetrics.ts, kept here as src/unnamed/part_001).                 *)
(*                                                                         *)
(* The engine is a library of pure functions.  Each exported function is   *)
(* an operator computed the way the code computes it, and each             *)
(* specification below is a caller: its initial states draw the inputs     *)
(* from bounded sets and its actions call the functions and keep what      *)
(* they return (or the error they throw).                                  *)
(*                                                                         *)
(* Numbers.  JavaScript numbers are modelled exactly where the code's      *)
(* values allow it:                                                        *)
(*   - counts, depths and durations are integers, with Infinity a          *)
(*     distinguished value above every finite one;                         *)
(*   - probabilities are rationals [n, d] in lowest terms;                 *)
(*   - the state-vector memory figure, a power of two far beyond the       *)
(*     integers of the checker, is a dyadic [m, e] standing for m * 2^e.   *)
(***************************************************************************)
EXTENDS Integers, Sequences, FiniteSets, TLC

VARIABLES
    pc,            \* where the caller is: "ready" before a call, "done" after
    circuit,       \* the QuantumCircuit handed to the engine
    architecture,  \* the QuantumHardwareArchitecture handed to the engine
    call,          \* the call made last: its name and its other arguments
    result,        \* what the last call returned or threw
    prev           \* what the call before the last change of input returned

vars == <<pc, circuit, architecture, call, result, prev>>

---------------------------------------------------------------------------
(* Bounds of the model.                                                    *)

\* Longest gate list of a circuit under analysis.
MaxGates == 3
\* Largest declared circuit width under analysis.
MaxQubits == 3
\* Largest circuit width handed to the SWAP estimator.
MaxLogical == 3
\* Largest number of physical qubits of an architecture.
MaxPhysical == 4

---------------------------------------------------------------------------
(* Values.                                                                 *)

\* JavaScript's Infinity: larger than every finite value of the model.
Infinity == 1000000

NoResult == [kind |-> "none"]
NoCall == [fn |-> "none"]

Max2(a, b) == IF a >= b THEN a ELSE b

SetMax(S) == CHOOSE x \in S : \A y \in S : y <= x

\* seq with elem inserted so that it becomes the element at index pos.
InsertAt(seq, pos, elem) ==
    SubSeq(seq, 1, pos - 1) \o <<elem>> \o SubSeq(seq, pos, Len(seq))

---------------------------------------------------------------------------
(* calculateCircuitLogicalDepth                                            *)

\* No error for a gate that references a qubit the circuit lacks: the
\* analysis ends with depth 0.
OutOfRangeIgnored(gateIndex, qubitIndex) == [kind |-> "ok", depth |-> 0]

\* The Error thrown for a gate that references a qubit the circuit lacks.
OutOfRange(gateIndex, qubitIndex) ==
    [kind |-> "throw", error |-> "OutOfRange",
     gate |-> gateIndex, qubit |-> qubitIndex]

\* The first loop over gate.qubits: the first index that is >= circuit.qubits,
\* or 0 positions when every index is in range.
FirstBadQubit(gate, qubits) ==
    LET bad == {k \in 1..Len(gate.qubits) : gate.qubits[k] >= qubits}
    IN  IF bad = {} THEN 0 ELSE CHOOSE k \in bad : \A j \in bad : k <= j

\* currentGateStartLayer read from the gate's first qubit only.
GateStartLayerFirst(gate, tracker) ==
    IF gate.qubits = <<>> THEN 0 ELSE tracker[gate.qubits[1]]

\* currentGateStartLayer: the maximum of 0 and the tracker of the gate's qubits.
GateStartLayer(gate, tracker) ==
    SetMax({0} \cup {tracker[gate.qubits[k]] : k \in 1..Len(gate.qubits)})

\* The second loop over gate.qubits: every qubit of the gate is busy until
\* the layer after the gate's start layer.
MarkBusy(gate, tracker, start) ==
    [q \in DOMAIN tracker |->
        IF \E k \in 1..Len(gate.qubits) : gate.qubits[k] = q
        THEN start + 1 ELSE tracker[q]]

\* maxLayer = currentGateStartLayer + 1, the running maximum dropped.
NextMaxLayerLast(maxLayer, start) == start + 1

\* maxLayer = Math.max(maxLayer, currentGateStartLayer + 1)
NextMaxLayer(maxLayer, start) == Max2(maxLayer, start + 1)

RECURSIVE DepthLoop(_, _, _, _)
DepthLoop(c, i, tracker, maxLayer) ==
    IF i > Len(c.gates) THEN [kind |-> "ok", depth |-> maxLayer]
    ELSE LET gate == c.gates[i]
             bad == FirstBadQubit(gate, c.qubits)
         IN  IF bad # 0 THEN OutOfRange(i, gate.qubits[bad])
             ELSE LET start == GateStartLayer(gate, tracker)
                  IN  DepthLoop(c, i + 1, MarkBusy(gate, tracker, start),
                                NextMaxLayer(maxLayer, start))

calculateCircuitLogicalDepth(c) ==
    IF Len(c.gates) = 0 THEN [kind |-> "ok", depth |-> 0]
    ELSE DepthLoop(c, 1, [q \in 0..(c.qubits - 1) |-> 0], 0)

---------------------------------------------------------------------------
(* buildAdjacencyList                                                      *)
(*                                                                         *)
(* An adjacency list is a sequence of neighbour sequences; entry i + 1 is  *)
(* the code's adj[i].  The order of the neighbours is the order of the     *)
(* code's push calls, which the greedy router's iteration depends on.      *)

\* adj[0] taken for undefined.
HasNodePositive(adj, i) == i > 0 /\ i < Len(adj)

\* adj[i] is not undefined.
HasNode(adj, i) == i >= 0 /\ i < Len(adj)

\* adj[i], for a node the list has.
Neighbors(adj, i) == adj[i + 1]

\* adj[a].push(b) alone.
PushEdgeOneWay(adj, e) == [adj EXCEPT ![e[1] + 1] = Append(@, e[2])]

\* adj[a].push(b); adj[b].push(a)
PushEdge(adj, e) ==
    LET a == e[1]
        b == e[2]
        one == [adj EXCEPT ![a + 1] = Append(@, b)]
    IN  [one EXCEPT ![b + 1] = Append(@, a)]

RECURSIVE PushEdges(_, _, _)
PushEdges(adj, edges, i) ==
    IF i > Len(edges) THEN adj
    ELSE PushEdges(PushEdge(adj, edges[i]), edges, i + 1)

\* [...new Set(neighbors)]: the first occurrence of every neighbour, in order.
RECURSIVE Dedup(_)
Dedup(seq) ==
    IF seq = <<>> THEN <<>>
    ELSE LET init == Dedup(SubSeq(seq, 1, Len(seq) - 1))
             last == seq[Len(seq)]
         IN  IF \E k \in 1..Len(init) : init[k] = last THEN init
             ELSE Append(init, last)

\* The edges of each named topology, in the order the code pushes them.
RECURSIVE AllToAllEdges(_, _, _)
AllToAllEdges(n, i, j) ==
    IF i >= n THEN <<>>
    ELSE IF j >= n THEN AllToAllEdges(n, i + 1, i + 2)
    ELSE <<(<<i, j>>)>> \o AllToAllEdges(n, i, j + 1)

RECURSIVE LinearEdges(_, _)
LinearEdges(n, i) ==
    IF i >= n - 1 THEN <<>> ELSE <<(<<i, i + 1>>)>> \o LinearEdges(n, i + 1)

RECURSIVE RingEdges(_, _)
RingEdges(n, i) ==
    IF i >= n THEN <<>> ELSE <<(<<i, (i + 1) % n>>)>> \o RingEdges(n, i + 1)

\* Math.floor(Math.sqrt(qubitCount))
FloorSqrt(n) == CHOOSE s \in 0..n : s * s <= n /\ (s + 1) * (s + 1) > n

\* Math.ceil(Math.sqrt(qubitCount))
CeilSqrt(n) == CHOOSE s \in 0..n : s * s >= n /\ \A t \in 0..n : t * t >= n => s <= t

RECURSIVE GridEdges(_, _, _)
GridEdges(n, side, idx) ==
    IF idx >= n THEN <<>>
    ELSE LET c == idx % side
             r == idx \div side
             right == IF c + 1 < side /\ idx + 1 < n
                      THEN <<(<<idx, idx + 1>>)>> ELSE <<>>
             down == IF r + 1 < side /\ idx + side < n
                     THEN <<(<<idx, idx + side>>)>> ELSE <<>>
         IN  right \o down \o GridEdges(n, side, idx + 1)

RECURSIVE HeavyEdges(_, _)
HeavyEdges(n, i) ==
    IF i >= n - 1 THEN <<>>
    ELSE LET cross == IF i < n - 2 /\ i % 3 = 0
                      THEN <<(<<i, i + 2>>)>> ELSE <<>>
         IN  <<(<<i, i + 1>>)>> \o cross \o HeavyEdges(n, i + 1)

TopologyEdges(type, n) ==
    CASE type = "all-to-all" -> AllToAllEdges(n, 0, 1)
      [] type = "linear" -> LinearEdges(n, 0)
      [] type = "ring" -> RingEdges(n, 0)
      [] type = "grid" -> GridEdges(n, CeilSqrt(n), 0)
      [] type \in {"heavy-hex", "heavy-square"} -> HeavyEdges(n, 0)
      [] OTHER -> <<>>

buildAdjacencyList(arch) ==
    IF arch.connectivity.type = "custom" THEN arch.connectivity.adjacencies
    ELSE LET empty == [i \in 1..arch.qubitCount |-> <<>>]
             pushed == PushEdges(empty,
                           TopologyEdges(arch.connectivity.type, arch.qubitCount), 1)
         IN  [i \in 1..arch.qubitCount |-> Dedup(pushed[i])]

---------------------------------------------------------------------------
(* shortestPathDistance                                                    *)

\* The TypeError of iterating adj[curr] for a node the list does not have.
TypeErrorValue == -1

\* The for loop over adj[curr] with no visited marks: every neighbour is queued.
VisitNeighborsAll(nb, k, visited, queue, dist) ==
    [visited |-> visited,
     queue |-> queue \o [j \in 1..Len(nb) |-> <<nb[j], dist + 2>>]]

\* The for loop over adj[curr]: every neighbour not yet visited is marked
\* and queued behind the nodes already waiting.
RECURSIVE VisitNeighbors(_, _, _, _, _)
VisitNeighbors(nb, k, visited, queue, dist) ==
    IF k > Len(nb) THEN [visited |-> visited, queue |-> queue]
    ELSE IF nb[k] \in visited
         THEN VisitNeighbors(nb, k + 1, visited, queue, dist)
         ELSE VisitNeighbors(nb, k + 1, visited \cup {nb[k]},
                             Append(queue, <<nb[k], dist + 1>>), dist)

RECURSIVE BfsLoop(_, _, _, _)
BfsLoop(queue, visited, endNode, adj) ==
    IF queue = <<>> THEN Infinity
    ELSE LET curr == Head(queue)[1]
             dist == Head(queue)[2]
         IN  IF curr = endNode THEN dist
             ELSE IF ~HasNode(adj, curr) THEN TypeErrorValue
             ELSE LET step == VisitNeighbors(Neighbors(adj, curr), 1, visited,
                                             Tail(queue), dist)
                  IN  BfsLoop(step.queue, step.visited, endNode, adj)

\* The search without the test for a node the graph does not have.
shortestPathDistanceUnchecked(startNode, endNode, adj) ==
    IF startNode = endNode THEN 0
    ELSE BfsLoop(<<(<<startNode, 0>>)>>, {startNode}, endNode, adj)

shortestPathDistance(startNode, endNode, adj) ==
    IF startNode = endNode THEN 0
    ELSE IF ~HasNode(adj, startNode) \/ ~HasNode(adj, endNode) THEN Infinity
    ELSE BfsLoop(<<(<<startNode, 0>>)>>, {startNode}, endNode, adj)

---------------------------------------------------------------------------
(* estimateSwapOverheadCount                                               *)
(*                                                                         *)
(* A mapping is a sequence; entry q + 1 is the code's currentMapping[q].   *)
(* The optional initialMapping argument is [given |-> FALSE] when it is    *)
(* left out and [given |-> TRUE, map |-> sequence] otherwise.              *)

\* Longest run of the greedy router's while loop the model follows for one
\* gate before it reports that the loop does not end.
MaxIterations == 12

NoMapping == [given |-> FALSE]
GivenMapping(m) == [given |-> TRUE, map |-> m]

\* Array.from({ length: numLogicalQubits }, (_, i) => i)
IdentityMapping(n) == [i \in 1..n |-> i - 1]

SeqRange(m) == {m[i] : i \in 1..Len(m)}

\* new Set(currentMapping).size !== numLogicalQubits
\*   || currentMapping.some(p => p >= numPhysicalQubits)
MappingInvalid(m, numLogical, numPhysical) ==
    \/ Cardinality(SeqRange(m)) # numLogical
    \/ \E i \in 1..Len(m) : m[i] >= numPhysical

\* currentMapping[q] is not undefined.
Mapped(m, q) == q >= 0 /\ q < Len(m)

\* currentMapping.findIndex(p => p === phys), -1 when there is none.
FindIndex(m, phys) ==
    LET hits == {i \in 1..Len(m) : m[i] = phys}
    IN  IF hits = {} THEN -1 ELSE (CHOOSE i \in hits : \A j \in hits : i <= j) - 1

\* totalSwaps += dist, the adjacent pair's own step counted as a SWAP.
MinusNone(dist) == dist

\* dist - 1, where Infinity - 1 is Infinity.
MinusOne(dist) == IF dist >= Infinity THEN Infinity ELSE dist - 1

\* totalSwaps = n: the total so far is dropped.
PlusNothing(total, n) == n

\* totalSwaps + n, where anything plus Infinity is Infinity.
Plus(total, n) == IF total >= Infinity \/ n >= Infinity THEN Infinity ELSE total + n

SwapThrow == [kind |-> "throw", error |-> "TypeError"]

\* The shortest-path branch: the fixed mapping, one term per 2-qubit gate.
RECURSIVE ShortestPathLoop(_, _, _, _, _)
ShortestPathLoop(gates, i, mapping, adj, totalSwaps) ==
    IF i > Len(gates) THEN [kind |-> "ok", count |-> totalSwaps]
    ELSE LET gate == gates[i]
         IN  IF Len(gate.qubits) # 2
                 \/ ~Mapped(mapping, gate.qubits[1])
                 \/ ~Mapped(mapping, gate.qubits[2])
             THEN ShortestPathLoop(gates, i + 1, mapping, adj, totalSwaps)
             ELSE LET physQ1 == mapping[gate.qubits[1] + 1]
                      physQ2 == mapping[gate.qubits[2] + 1]
                      dist == shortestPathDistance(physQ1, physQ2, adj)
                  IN  IF dist = TypeErrorValue THEN SwapThrow
                      ELSE ShortestPathLoop(gates, i + 1, mapping, adj,
                               IF dist > 1 THEN Plus(totalSwaps, MinusOne(dist))
                               ELSE totalSwaps)

\* One of the two for loops that look for an improving SWAP.  The first
\* (ofQ1) tries the neighbours of physQ1 and measures from the neighbour to
\* physQ2; the second tries the neighbours of physQ2 and measures from
\* physQ1 to the neighbour.  best is <<>> for null.
RECURSIVE TryNeighbors(_, _, _, _, _, _, _, _, _)
TryNeighbors(nb, k, ofQ1, moved, other, adj, active, best, currentDist) ==
    IF k > Len(nb) THEN [thrown |-> FALSE, best |-> best, dist |-> currentDist]
    ELSE IF nb[k] \notin active
         THEN TryNeighbors(nb, k + 1, ofQ1, moved, other, adj, active, best,
                           currentDist)
         ELSE LET distAfterSwap ==
                      IF ofQ1 THEN shortestPathDistance(nb[k], other, adj)
                      ELSE shortestPathDistance(other, nb[k], adj)
              IN  IF distAfterSwap = TypeErrorValue
                  THEN [thrown |-> TRUE, best |-> best, dist |-> currentDist]
                  ELSE IF distAfterSwap < currentDist
                       THEN TryNeighbors(nb, k + 1, ofQ1, moved, other, adj,
                                         active, <<moved, nb[k]>>, distAfterSwap)
                       ELSE TryNeighbors(nb, k + 1, ofQ1, moved, other, adj,
                                         active, best, currentDist)

\* adj[phys] || []
NeighborsOrNone(adj, phys) == IF HasNode(adj, phys) THEN Neighbors(adj, phys) ELSE <<>>

\* adj[physQ1]?.includes(physQ2)
Adjacent(adj, physQ1, physQ2) ==
    /\ HasNode(adj, physQ1)
    /\ \E k \in 1..Len(Neighbors(adj, physQ1)) : Neighbors(adj, physQ1)[k] = physQ2

\* One pass of the while loop for the gate on logical qubits logQ1, logQ2.
\* next: "stay" (the loop goes round again), "leave" (the loop is left) or
\* "throw".
GreedyIteration(logQ1, logQ2, mapping, adj, active, totalSwaps) ==
    LET physQ1 == mapping[logQ1 + 1]
        physQ2 == mapping[logQ2 + 1]
        leave(m, t) == [next |-> "leave", mapping |-> m, totalSwaps |-> t]
        thrown == [next |-> "throw", mapping |-> mapping, totalSwaps |-> totalSwaps]
    IN  IF Adjacent(adj, physQ1, physQ2) THEN leave(mapping, totalSwaps)
        ELSE LET startDist == shortestPathDistance(physQ1, physQ2, adj)
             IN  IF startDist = TypeErrorValue THEN thrown
                 ELSE IF startDist <= 1 THEN leave(mapping, totalSwaps)
                 ELSE LET first == TryNeighbors(NeighborsOrNone(adj, physQ1), 1,
                                       TRUE, physQ1, physQ2, adj, active,
                                       <<>>, startDist)
                          second == TryNeighbors(NeighborsOrNone(adj, physQ2), 1,
                                        FALSE, physQ2, physQ1, adj, active,
                                        first.best, first.dist)
                      IN  IF first.thrown THEN thrown
                          ELSE IF second.thrown THEN thrown
                          ELSE IF second.best = <<>>
                          THEN leave(mapping,
                                     IF second.dist > 1
                                     THEN Plus(totalSwaps, MinusOne(second.dist))
                                     ELSE totalSwaps)
                          ELSE LET logAtSwap0 == FindIndex(mapping, second.best[1])
                                   logAtSwap1 == FindIndex(mapping, second.best[2])
                               IN  IF logAtSwap0 # -1 /\ logAtSwap1 # -1
                                   THEN [next |-> "stay",
                                         mapping |->
                                            [[mapping EXCEPT ![logAtSwap0 + 1] = second.best[2]]
                                                EXCEPT ![logAtSwap1 + 1] = second.best[1]],
                                         totalSwaps |-> Plus(totalSwaps, 1)]
                                   ELSE leave(mapping, Plus(totalSwaps, 1))

\* The while loop of one gate, followed for at most `fuel` passes.
RECURSIVE GreedyWhile(_, _, _, _, _, _, _)
GreedyWhile(logQ1, logQ2, mapping, adj, active, totalSwaps, fuel) ==
    LET it == GreedyIteration(logQ1, logQ2, mapping, adj, active, totalSwaps)
    IN  IF it.next # "stay" THEN it
        ELSE IF fuel = 0
             THEN [next |-> "diverge", mapping |-> it.mapping,
                   totalSwaps |-> it.totalSwaps]
             ELSE GreedyWhile(logQ1, logQ2, it.mapping, adj, active,
                              it.totalSwaps, fuel - 1)

\* The greedy-router branch: the live mapping, gate after gate.
RECURSIVE GreedyLoop(_, _, _, _, _, _)
GreedyLoop(gates, i, mapping, adj, active, totalSwaps) ==
    IF i > Len(gates) THEN [kind |-> "ok", count |-> totalSwaps]
    ELSE LET gate == gates[i]
         IN  IF Len(gate.qubits) # 2
                 \/ ~Mapped(mapping, gate.qubits[1])
                 \/ ~Mapped(mapping, gate.qubits[2])
             THEN GreedyLoop(gates, i + 1, mapping, adj, active, totalSwaps)
             ELSE LET w == GreedyWhile(gate.qubits[1], gate.qubits[2], mapping,
                                       adj, active, totalSwaps, MaxIterations)
                  IN  CASE w.next = "throw" -> SwapThrow
                        [] w.next = "diverge" -> [kind |-> "diverge"]
                        [] OTHER -> GreedyLoop(gates, i + 1, w.mapping, adj,
                                               active, w.totalSwaps)

\* [...initialMapping], or the identity when no mapping is given.
StartMapping(c, initialMapping) ==
    IF initialMapping.given THEN initialMapping.map ELSE IdentityMapping(c.qubits)

\* The mapping routing starts from: the start mapping, or the identity when
\* the start mapping fails validation.
ValidatedMapping(c, arch, initialMapping) ==
    IF MappingInvalid(StartMapping(c, initialMapping), c.qubits, arch.qubitCount)
    THEN IdentityMapping(c.qubits)
    ELSE StartMapping(c, initialMapping)

\* return 0 in place of return Infinity.
UnmappableZero == [kind |-> "ok", count |-> 0]

\* return Infinity: the circuit cannot be placed on the architecture.
Unmappable == [kind |-> "ok", count |-> Infinity]

\* The width test placed before the all-to-all test.
AllToAllFitting(c, arch) ==
    arch.connectivity.type = "all-to-all" /\ c.qubits <= arch.qubitCount

\* architecture.connectivity === 'all-to-all', tested before anything else.
AllToAll(c, arch) == arch.connectivity.type = "all-to-all"

estimateSwapOverheadCount(c, arch, routingAlgorithm, initialMapping) ==
    IF AllToAll(c, arch) THEN [kind |-> "ok", count |-> 0]
    ELSE IF c.qubits > arch.qubitCount THEN Unmappable
    ELSE LET adj == buildAdjacencyList(arch)
             reset == MappingInvalid(StartMapping(c, initialMapping),
                                     c.qubits, arch.qubitCount)
             mapping == ValidatedMapping(c, arch, initialMapping)
         IN  IF reset /\ \E i \in 1..Len(mapping) : mapping[i] >= arch.qubitCount
             THEN Unmappable
             ELSE IF routingAlgorithm = "shortest-path"
                  THEN ShortestPathLoop(c.gates, 1, mapping, adj, 0)
                  ELSE IF routingAlgorithm = "greedy-router"
                  THEN GreedyLoop(c.gates, 1, mapping, adj, SeqRange(mapping), 0)
                  ELSE [kind |-> "ok", count |-> 0]

---------------------------------------------------------------------------
(* Probabilities and products of probabilities.                            *)
(*                                                                         *)
(* A rate is a rational [n, d] in lowest terms.  A product of factors      *)
(* (1 - rate)^k, as the fidelity estimator forms it, is kept exactly as    *)
(* its prime factorisation: a function from primes to non-zero integer     *)
(* exponents.  Two products are equal if and only if their factorisations  *)
(* are, and no intermediate product outgrows the checker's integers.       *)

RECURSIVE GCD(_, _)
GCD(a, b) == IF b = 0 THEN a ELSE GCD(b, a % b)

\* The rational n / d (d > 0) in lowest terms.
Rat(n, d) == LET g == GCD(IF n < 0 THEN -n ELSE n, d) IN [n |-> n \div g, d |-> d \div g]

RZero == [n |-> 0, d |-> 1]
ROne == [n |-> 1, d |-> 1]

RAdd(a, b) == Rat(a.n * b.d + b.n * a.d, a.d * b.d)
RSub(a, b) == Rat(a.n * b.d - b.n * a.d, a.d * b.d)
RLess(a, b) == a.n * b.d < b.n * a.d
RLeq(a, b) == a.n * b.d <= b.n * a.d

\* The factorisation of a product with the zero exponents dropped.
PFNormal(f) == [p \in {q \in DOMAIN f : f[q] # 0} |-> f[p]]

PFOne == [p \in {} |-> 0]

PFExp(f, p) == IF p \in DOMAIN f THEN f[p] ELSE 0

PFMul(f, g) == PFNormal([p \in DOMAIN f \cup DOMAIN g |-> PFExp(f, p) + PFExp(g, p)])

PFPow(f, k) == PFNormal([p \in DOMAIN f |-> k * f[p]])

RECURSIVE PFOfInt(_)
PFOfInt(n) ==
    IF n <= 1 THEN PFOne
    ELSE LET \* the least prime factor of n
             p == CHOOSE k \in 2..n : n % k = 0 /\ \A q \in 2..(k - 1) : n % q # 0
         IN  PFMul([q \in {p} |-> 1], PFOfInt(n \div p))

\* The factorisation of a positive rational.
PFOfRat(r) == PFMul(PFOfInt(r.n), PFPow(PFOfInt(r.d), -1))

\* A fidelity: the number  product * exp(-decay), where product is 0 (zero),
\* or the rational with factorisation pf, and decay is a rational >= 0; or
\* NaN.  Because exp of a non-zero rational is irrational, two fidelities
\* are the same number exactly when these records are equal.
FidelityNaN == [nan |-> TRUE, zero |-> FALSE, pf |-> PFOne, decay |-> RZero]
FidelityZero == [nan |-> FALSE, zero |-> TRUE, pf |-> PFOne, decay |-> RZero]
FidelityOne == [nan |-> FALSE, zero |-> FALSE, pf |-> PFOne, decay |-> RZero]

\* The fidelity that is the rational r in [0, 1].
FidelityOf(r) ==
    IF r.n = 0 THEN FidelityZero ELSE [FidelityOne EXCEPT !.pf = PFOfRat(r)]

\* totalFidelity *= Math.pow(1 - rate, k), for a rate in [0, 1] and a count
\* k >= 0 that may be Infinity.
TimesSurvival(f, rate, k) ==
    IF f.nan THEN f
    ELSE IF k = 0 THEN f
    ELSE IF rate.n = 0
         THEN (IF k >= Infinity THEN FidelityNaN ELSE f)
    ELSE IF f.zero \/ rate = ROne \/ k >= Infinity THEN FidelityZero
    ELSE [f EXCEPT !.pf = PFMul(@, PFPow(PFOfRat(RSub(ROne, rate)), k))]

---------------------------------------------------------------------------
(* Constants and fallback chains                                           *)

\* DEFAULT_PHYSICAL_ERROR_RATE, and its multiples used as fallbacks.
DEFAULT_PHYSICAL_ERROR_RATE == Rat(1, 1000)
DefaultTwoQubitErrorRate == Rat(10, 1000)
DefaultReadoutErrorRate == Rat(5, 1000)

COHERENCE_SAFETY_FACTOR == 5

\* TECHNOLOGY_BENCHMARKS.superconducting
BenchmarkSingleQubitTime == 30
BenchmarkTwoQubitTime == 200
BenchmarkMeasurementTime == 500
BenchmarkT2Time == 80

\* table[key] || fallback, for a table of rates: an absent key and a rate
\* of 0 both give the fallback.
RateOr(table, key, fallback) ==
    IF key \in DOMAIN table /\ table[key].n # 0 THEN table[key] ELSE fallback

\* table[key] || fallback, for a table of durations.
TimeOr(table, key, fallback) ==
    IF key \in DOMAIN table /\ table[key] # 0 THEN table[key] ELSE fallback

\* a * b for a >= 0 and b > 0, either possibly Infinity.
Times(a, b) ==
    IF a = 0 THEN 0
    ELSE IF a >= Infinity \/ b >= Infinity THEN Infinity ELSE a * b

\* times.reduce((a, b) => a + b, 0)
RECURSIVE Sum(_)
Sum(seq) == IF seq = <<>> THEN 0 ELSE Plus(Head(seq), Sum(Tail(seq)))

---------------------------------------------------------------------------
(* estimatePhysicalExecutionTime                                           *)

NoDepth == [given |-> FALSE]
GivenDepth(d) == [given |-> TRUE, value |-> d]

\* gate.duration || (per-tag timing || category default)
GateDuration(gate, arch, defaultSingle, defaultTwo) ==
    IF "duration" \in DOMAIN gate /\ gate.duration # 0 THEN gate.duration
    ELSE IF Len(gate.qubits) > 1
         THEN TimeOr(arch.gateTimings, gate.type, defaultTwo)
         ELSE TimeOr(arch.gateTimings, gate.type, defaultSingle)

RECURSIVE SumGateDurations(_, _, _, _, _)
SumGateDurations(gates, i, arch, defaultSingle, defaultTwo) ==
    IF i > Len(gates) THEN 0
    ELSE Plus(GateDuration(gates[i], arch, defaultSingle, defaultTwo),
              SumGateDurations(gates, i + 1, arch, defaultSingle, defaultTwo))

estimatePhysicalExecutionTime(c, arch, swapCount, compiledCircuitDepth) ==
    LET defaultSingle == TimeOr(arch.gateTimings, "single-qubit", BenchmarkSingleQubitTime)
        defaultTwo == TimeOr(arch.gateTimings, "two-qubit", BenchmarkTwoQubitTime)
        defaultMeasurement == TimeOr(arch.gateTimings, "measurement", BenchmarkMeasurementTime)
        swapDuration == 3 * TimeOr(arch.gateTimings, "CNOT", defaultTwo)
        gateTime ==
            IF compiledCircuitDepth.given /\ compiledCircuitDepth.value > 0
            THEN Times(compiledCircuitDepth.value, defaultTwo)
            ELSE Plus(SumGateDurations(c.gates, 1, arch, defaultSingle, defaultTwo),
                      Times(swapCount, swapDuration))
    IN  Plus(gateTime, c.qubits * defaultMeasurement)

\* (physicalExecutionTimeNs / 1000) * COHERENCE_SAFETY_FACTOR, in
\* microseconds: a rational, or Infinity.
calculateRequiredCoherence(physicalExecutionTimeNs) ==
    IF physicalExecutionTimeNs >= Infinity THEN [inf |-> TRUE, r |-> RZero]
    ELSE [inf |-> FALSE,
          r |-> Rat(physicalExecutionTimeNs * COHERENCE_SAFETY_FACTOR, 1000)]

---------------------------------------------------------------------------
(* estimateCircuitFidelity                                                 *)

\* A readoutErrors value: a list of rates, or a single number where the
\* caller passes one in place of the list.
RateList(rates) == [array |-> TRUE, values |-> rates]
RateNumber(rate) == [array |-> FALSE, values |-> <<rate>>]

RECURSIVE SumRates(_, _)
SumRates(rates, i) ==
    IF i > Len(rates) THEN RZero ELSE RAdd(rates[i], SumRates(rates, i + 1))

\* The average readout error: the mean of a non-empty list; an empty list
\* is truthy and counts as 0 in 1 - avgReadoutError; a single number
\* falls back to the default when it is 0.
AverageReadoutError(arch) ==
    LET values == arch.readoutErrors.values
    IN  IF arch.readoutErrors.array
        THEN (IF Len(values) > 0
              THEN Rat(SumRates(values, 1).n, SumRates(values, 1).d * Len(values))
              ELSE RZero)
        ELSE (IF values[1].n # 0 THEN values[1] ELSE DefaultReadoutErrorRate)

\* The error rate of one gate that tells an absent rate from a rate of 0:
\* 1 - gate.fidelity, else the per-tag rate, else the category fallback,
\* else the default.
GateErrorRateDeclared(gate, arch) ==
    LET category == IF Len(gate.qubits) > 1 THEN "two-qubit" ELSE "single-qubit"
        default == IF Len(gate.qubits) > 1 THEN DefaultTwoQubitErrorRate
                   ELSE DEFAULT_PHYSICAL_ERROR_RATE
    IN  IF "fidelity" \in DOMAIN gate THEN RSub(ROne, gate.fidelity)
        ELSE IF gate.type \in DOMAIN arch.gateErrors THEN arch.gateErrors[gate.type]
        ELSE IF category \in DOMAIN arch.gateErrors THEN arch.gateErrors[category]
        ELSE default

\* The error rate of one gate: 1 - gate.fidelity, else the per-tag rate, else
\* the category fallback, else the default; every || skips a rate of 0.
GateErrorRate(gate, arch) ==
    LET defaultSingle == RateOr(arch.gateErrors, "single-qubit", DEFAULT_PHYSICAL_ERROR_RATE)
        defaultTwo == RateOr(arch.gateErrors, "two-qubit", DefaultTwoQubitErrorRate)
    IN  IF "fidelity" \in DOMAIN gate THEN RSub(ROne, gate.fidelity)
        ELSE IF Len(gate.qubits) > 1
             THEN RateOr(arch.gateErrors, gate.type, defaultTwo)
             ELSE RateOr(arch.gateErrors, gate.type, defaultSingle)

\* architecture.gateErrors['CNOT'] || architecture.gateErrors['CX'] || two-qubit default
CnotErrorRate(arch) ==
    RateOr(arch.gateErrors, "CNOT",
        RateOr(arch.gateErrors, "CX",
            RateOr(arch.gateErrors, "two-qubit", DefaultTwoQubitErrorRate)))

\* The factors the estimator multiplies, in its order, each as
\* [rate, count] for Math.pow(1 - rate, count): one per gate, the SWAPs
\* (three CNOTs each) and the readout of every qubit.
FidelityFactors(c, arch, swapCount) ==
    [i \in 1..Len(c.gates) |-> [rate |-> GateErrorRate(c.gates[i], arch), count |-> 1]]
    \o << [rate |-> CnotErrorRate(arch), count |-> Times(swapCount, 3)],
          [rate |-> AverageReadoutError(arch),
           count |-> c.qubits] >>

RECURSIVE MultiplyFactors(_, _, _)
MultiplyFactors(f, factors, i) ==
    IF i > Len(factors) THEN f
    ELSE MultiplyFactors(TimesSurvival(f, factors[i].rate, factors[i].count),
                         factors, i + 1)

\* The average T2 in microseconds, [inf, r]: the list's mean, or the
\* benchmark value for an empty list.
AverageT2(arch) ==
    IF Len(arch.t2Times) = 0 THEN [inf |-> FALSE, r |-> Rat(BenchmarkT2Time, 1)]
    ELSE IF Sum(arch.t2Times) >= Infinity THEN [inf |-> TRUE, r |-> RZero]
    ELSE [inf |-> FALSE, r |-> Rat(Sum(arch.t2Times), Len(arch.t2Times))]

\* if (avgT2TimeUs > 0) totalFidelity *= Math.exp(-executionTimeUs / avgT2TimeUs)
Decoherence(f, executionTimeNs, avgT2) ==
    IF ~avgT2.inf /\ avgT2.r.n <= 0 THEN f
    ELSE IF f.nan THEN f
    ELSE IF avgT2.inf
         THEN (IF executionTimeNs >= Infinity THEN FidelityNaN ELSE f)
    ELSE IF executionTimeNs >= Infinity \/ f.zero THEN FidelityZero
    ELSE [f EXCEPT !.decay = Rat(executionTimeNs * avgT2.r.d, 1000 * avgT2.r.n)]

estimateCircuitFidelity(c, arch, swapCount) ==
    Decoherence(MultiplyFactors(FidelityOne, FidelityFactors(c, arch, swapCount), 1),
                estimatePhysicalExecutionTime(c, arch, swapCount, NoDepth),
                AverageT2(arch))

---------------------------------------------------------------------------
(* estimateFaultTolerantResources                                          *)
(*                                                                         *)
(* The target logical error rate and the ratios the logarithms are taken   *)
(* of are kept as prime factorisations over the primes 2, 3, 5 and 7.  A   *)
(* logarithm to base 10 is an interval of millionths that holds it; the    *)
(* quotient of two logarithms does not depend on the base.                 *)

\* SURFACE_CODE_PARAMS
THRESHOLD_ERROR_RATE == Rat(1, 100)
CONSTANT_FACTOR_A == Rat(1, 10)

LogScale == 1000000

\* log10 of the primes, in millionths: <<below, above>>.
Log10Prime ==
    2 :> <<301029, 301030>> @@ 3 :> <<477121, 477122>>
    @@ 5 :> <<698970, 698971>> @@ 7 :> <<845098, 845099>>

CeilDiv(a, b) == (a + b - 1) \div b

\* Math.log of the positive number with factorisation f: [lo, hi, exact],
\* exact for a power of ten.
Log10Bounds(f) ==
    LET e2 == PFExp(f, 2)
        e5 == PFExp(f, 5)
        k == IF e2 > 0 /\ e5 > 0 THEN (IF e2 < e5 THEN e2 ELSE e5)
             ELSE IF e2 < 0 /\ e5 < 0 THEN Max2(e2, e5)
             ELSE 0
        rest == PFMul(f, PFPow(PFOfInt(10), -k))
        below(q) == IF PFExp(rest, q) > 0 THEN PFExp(rest, q) * Log10Prime[q][1]
                    ELSE PFExp(rest, q) * Log10Prime[q][2]
        above(q) == IF PFExp(rest, q) > 0 THEN PFExp(rest, q) * Log10Prime[q][2]
                    ELSE PFExp(rest, q) * Log10Prime[q][1]
    IN  [lo |-> k * LogScale + below(2) + below(3) + below(5) + below(7),
         hi |-> k * LogScale + above(2) + above(3) + above(5) + above(7),
         exact |-> rest = PFOne]

\* d = Math.ceil(d); if (d % 2 === 0) d++; d = Math.max(3, d)
OddDistance(raw) == Max2(3, IF raw % 2 = 0 THEN raw + 1 ELSE raw)

\* The code distances the build can produce for a physical error rate below
\* the threshold: Math.ceil of 2 * log(target / A) / log(p / p_th) - 1,
\* made odd and at least 3.  Where the quotient of the logarithms is an
\* integer the rounding of the floating-point division decides between
\* that integer and the next.
CodeDistances(physicalErrorRate, targetLogicalErrorRate) ==
    LET num == Log10Bounds(PFMul(targetLogicalErrorRate,
                                 PFPow(PFOfRat(CONSTANT_FACTOR_A), -1)))
        den == Log10Bounds(PFMul(PFOfRat(physicalErrorRate),
                                 PFPow(PFOfRat(THRESHOLD_ERROR_RATE), -1)))
        least == IF num.hi >= 0 THEN 0 ELSE 2 * (-num.hi)
        most == IF num.lo >= 0 THEN 0 ELSE 2 * (-num.lo)
        rawLo == CeilDiv(least, -den.lo) - 1
        rawHi == IF num.exact /\ den.exact /\ most % (-den.hi) = 0
                 THEN most \div (-den.hi)
                 ELSE CeilDiv(most, -den.hi) - 1
    IN  {OddDistance(raw) : raw \in rawLo..rawHi}

\* gateErrors['two-qubit'] || gateErrors['CNOT'] || DEFAULT_PHYSICAL_ERROR_RATE * 10
PhysicalErrorRate(arch) ==
    RateOr(arch.gateErrors, "two-qubit",
        RateOr(arch.gateErrors, "CNOT", DefaultTwoQubitErrorRate))

\* physicalErrorRate >= SURFACE_CODE_PARAMS.THRESHOLD_ERROR_RATE

RInfinity == [n |-> 1, d |-> 0]

\* The infeasible record with the magic states still counted.
InfeasibleResourcesCounted(logicalQubitCount, logicalCircuitDepth, targetLogicalErrorRate) ==
    [isEnabled |-> TRUE, targetLogicalErrorRate |-> targetLogicalErrorRate,
     codeName |-> "SurfaceCode", codeDistance |-> Infinity,
     logicalQubits |-> logicalQubitCount,
     physicalQubitsPerLogical |-> Infinity, totalPhysicalQubits |-> Infinity,
     errorCorrectionOverheadFactor |-> Infinity, logicalTimeUnitDuration |-> Infinity,
     logicalDepth |-> logicalCircuitDepth, totalLogicalExecutionTime |-> Infinity,
     resourceStateCount |-> 0, distillationOverhead |-> RInfinity]

\* The record returned when the physical error rate is too high.
InfeasibleResources(logicalQubitCount, logicalCircuitDepth, targetLogicalErrorRate) ==
    [isEnabled |-> TRUE, targetLogicalErrorRate |-> targetLogicalErrorRate,
     codeName |-> "SurfaceCode", codeDistance |-> Infinity,
     logicalQubits |-> logicalQubitCount,
     physicalQubitsPerLogical |-> Infinity, totalPhysicalQubits |-> Infinity,
     errorCorrectionOverheadFactor |-> Infinity, logicalTimeUnitDuration |-> Infinity,
     logicalDepth |-> logicalCircuitDepth, totalLogicalExecutionTime |-> Infinity,
     resourceStateCount |-> Infinity, distillationOverhead |-> RInfinity]

\* The record returned for code distance d.
FeasibleResources(logicalQubitCount, tGateCount, logicalCircuitDepth, arch, targetLogicalErrorRate, d) ==
    LET physicalPerLogical == 2 * d * d
        \* Math.ceil(logicalQubitCount * physicalPerLogical * 1.5)
        totalPhysicalQubits == CeilDiv(logicalQubitCount * physicalPerLogical * 3, 2)
        physicalTwoQubitGateTime ==
            TimeOr(arch.gateTimings, "two-qubit",
                TimeOr(arch.gateTimings, "CNOT", BenchmarkTwoQubitTime))
        logicalTimeUnitDuration == 5 * d * physicalTwoQubitGateTime
        \* Math.ceil(resourceStateCount > 0 ? logicalQubitCount * 0.25 : 0)
        distillationQubits == IF tGateCount > 0 THEN CeilDiv(logicalQubitCount, 4) ELSE 0
    IN  [isEnabled |-> TRUE, targetLogicalErrorRate |-> targetLogicalErrorRate,
         codeName |-> "SurfaceCode", codeDistance |-> d,
         logicalQubits |-> logicalQubitCount,
         physicalQubitsPerLogical |-> physicalPerLogical,
         totalPhysicalQubits |-> totalPhysicalQubits + distillationQubits,
         errorCorrectionOverheadFactor |-> 3 * d * d,
         logicalTimeUnitDuration |-> logicalTimeUnitDuration,
         logicalDepth |-> logicalCircuitDepth,
         totalLogicalExecutionTime |-> logicalCircuitDepth * logicalTimeUnitDuration,
         resourceStateCount |-> tGateCount,
         distillationOverhead |-> IF tGateCount > 0 THEN Rat(5, 4) ELSE ROne]

\* The set of records the build can return: one, but for the rounding of
\* the code distance.
estimateFaultTolerantResources(logicalQubitCount, tGateCount, logicalCircuitDepth, arch, targetLogicalErrorRate) ==
    IF RLeq(THRESHOLD_ERROR_RATE, PhysicalErrorRate(arch))
    THEN {InfeasibleResources(logicalQubitCount, logicalCircuitDepth,
                              targetLogicalErrorRate)}
    ELSE {FeasibleResources(logicalQubitCount, tGateCount, logicalCircuitDepth, arch,
                            targetLogicalErrorRate, d) :
            d \in CodeDistances(PhysicalErrorRate(arch), targetLogicalErrorRate)}

---------------------------------------------------------------------------
(* analyzeGateComposition                                                  *)

CLIFFORD_GATES == {"X", "Y", "Z", "H", "S", "SDG", "CX", "CY", "CZ", "CNOT", "SWAP"}

\* String.prototype.toUpperCase, on the tags that are not upper case already.
ToUpperCase(tag) ==
    LET upper == "h" :> "H" @@ "s" :> "S" @@ "t" :> "T" @@ "cnot" :> "CNOT"
                 @@ "cx" :> "CX" @@ "tdg" :> "TDG" @@ "Tdg" :> "TDG"
    IN  IF tag \in DOMAIN upper THEN upper[tag] ELSE tag

\* The number of gates of the list that are in the set.
CountGates(gates, selected) == Cardinality({i \in 1..Len(gates) : gates[i] \in selected})

GatesOf(c) == {c.gates[i] : i \in 1..Len(c.gates)}

analyzeGateComposition(c) ==
    [gateCounts |->
        [tag \in {g.type : g \in GatesOf(c)} |->
            CountGates(c.gates, {g \in GatesOf(c) : g.type = tag})],
     totalGateCount |-> Len(c.gates),
     tGateCount |-> CountGates(c.gates, {g \in GatesOf(c) : g.type \in {"T", "TDG"}}),
     cliffordGateCount |->
        CountGates(c.gates, {g \in GatesOf(c) : ToUpperCase(g.type) \in CLIFFORD_GATES}),
     nonCliffordGateCount |->
        CountGates(c.gates, {g \in GatesOf(c) : ToUpperCase(g.type) \notin CLIFFORD_GATES}),
     twoQubitGateCount |-> CountGates(c.gates, {g \in GatesOf(c) : Len(g.qubits) = 2}),
     multiQubitGateCount |-> CountGates(c.gates, {g \in GatesOf(c) : Len(g.qubits) > 2})]

---------------------------------------------------------------------------
(* estimateClassicalResources                                              *)
(*                                                                         *)
(* A memory figure is the number m * 2^e with m odd (or m = 0), +Infinity  *)
(* or NaN, so that 2^n is held for every n a double can hold.              *)

\* The largest power of two a double holds is 2^1023.
MaxExponent == 1023

MemoryNaN == [nan |-> TRUE, inf |-> FALSE, m |-> 0, e |-> 0]
MemoryInfinity == [nan |-> FALSE, inf |-> TRUE, m |-> 0, e |-> 0]

RECURSIVE BitLength(_)
BitLength(k) == IF k = 0 THEN 0 ELSE 1 + BitLength(k \div 2)

RECURSIVE Dyadic(_, _)
Dyadic(m, e) ==
    IF m = 0 THEN [nan |-> FALSE, inf |-> FALSE, m |-> 0, e |-> 0]
    ELSE IF m % 2 = 0 THEN Dyadic(m \div 2, e + 1)
    ELSE IF e + BitLength(m) > MaxExponent + 1 THEN MemoryInfinity
    ELSE [nan |-> FALSE, inf |-> FALSE, m |-> m, e |-> e]

\* n * n * 16 in place of Math.pow(2, n) * 16.
SquareBytes(n) == Dyadic(n * n * 16, 0)

\* Math.pow(2, n) * 16
StateVectorBytes(n) == Dyadic(1, n + 4)

\* Math.ceil(memoryBytes / (1024 * 1024))
CeilMegabytes(bytes) ==
    IF bytes.nan \/ bytes.inf THEN bytes
    ELSE IF bytes.e >= 20 THEN Dyadic(bytes.m, bytes.e - 20)
    ELSE Dyadic(CeilDiv(bytes.m * 2 ^ bytes.e, 2 ^ 20), 0)

StateVectorResources(c) ==
    [complexity |-> "O(G_total * 2^N_q)",
     memoryMB |-> CeilMegabytes(StateVectorBytes(c.qubits))]

\* The estimate without the fall-back of clifford mode to state-vector.
estimateClassicalResourcesNoFallback(c, simulationType) ==
    IF simulationType = "clifford"
    THEN [complexity |-> "O(poly(N_q, G_total)) approx O(N_q^2 * G_total)",
          memoryMB |-> Dyadic(CeilDiv(c.qubits * c.qubits * 8, 2 ^ 20) + 1, 0)]
    ELSE StateVectorResources(c)

estimateClassicalResources(c, simulationType) ==
    LET composition == analyzeGateComposition(c)
    IN  IF simulationType = "clifford"
           /\ composition.cliffordGateCount = composition.totalGateCount
        THEN [complexity |-> "O(poly(N_q, G_total)) approx O(N_q^2 * G_total)",
              memoryMB |-> Dyadic(CeilDiv(c.qubits * c.qubits * 8, 2 ^ 20) + 1, 0)]
        ELSE IF simulationType \in {"clifford", "state-vector"}
        THEN StateVectorResources(c)
        ELSE IF simulationType = "tensor-network"
        THEN [complexity |-> "Varies (e.g., O(poly(N_q) * D_max^k * G_total) for 1D-like)",
              memoryMB |-> MemoryNaN]
        ELSE [complexity |-> "Unknown", memoryMB |-> MemoryNaN]

---------------------------------------------------------------------------
(* Comparisons of a product of probabilities with a threshold.             *)
(*                                                                         *)
(* A product is enclosed in an interval [lo, hi] of ten-thousandths,       *)
(* rounded outwards at every multiplication.  A comparison whose threshold *)
(* lies inside the interval can go either way.                             *)

Resolution == 10000

WholeInterval == [lo |-> Resolution, hi |-> Resolution]

\* Math.pow(factor, count), rounded down and rounded up, for a factor in
\* ten-thousandths.
RECURSIVE PowerBelow(_, _)
PowerBelow(factor, count) ==
    IF count = 0 THEN Resolution
    ELSE IF count % 2 = 1 THEN (factor * PowerBelow(factor, count - 1)) \div Resolution
    ELSE LET half == PowerBelow(factor, count \div 2)
         IN  (half * half) \div Resolution

RECURSIVE PowerAbove(_, _)
PowerAbove(factor, count) ==
    IF count = 0 THEN Resolution
    ELSE IF count % 2 = 1 THEN CeilDiv(factor * PowerAbove(factor, count - 1), Resolution)
    ELSE LET half == PowerAbove(factor, count \div 2)
         IN  CeilDiv(half * half, Resolution)

\* interval * Math.pow(1 - rate, count)
Narrow(iv, rate, count) ==
    IF count = 0 \/ rate.n = 0 THEN iv
    ELSE IF count >= Infinity THEN [lo |-> 0, hi |-> 0]
    ELSE [lo |-> (iv.lo * PowerBelow((Resolution * (rate.d - rate.n)) \div rate.d, count))
                    \div Resolution,
          hi |-> CeilDiv(iv.hi * PowerAbove(CeilDiv(Resolution * (rate.d - rate.n), rate.d),
                                            count),
                         Resolution)]

RECURSIVE NarrowAll(_, _, _)
NarrowAll(iv, factors, i) ==
    IF i > Len(factors) THEN iv
    ELSE NarrowAll(Narrow(iv, factors[i].rate, factors[i].count), factors, i + 1)

\* interval * Math.exp(-decay), by 1 - x <= exp(-x) <= 1 / (1 + x)
NarrowByDecay(iv, decay) ==
    [lo |-> (iv.lo * Max2(0, decay.d - decay.n)) \div decay.d,
     hi |-> CeilDiv(iv.hi * decay.d, decay.d + decay.n)]

\* The truth values that  value < threshold  can take.
Below(iv, threshold) ==
    IF iv.hi * threshold.d < threshold.n * Resolution THEN {TRUE}
    ELSE IF iv.lo * threshold.d >= threshold.n * Resolution THEN {FALSE}
    ELSE {TRUE, FALSE}

\* The truth values that  value > threshold  can take.
Above(iv, threshold) ==
    IF iv.lo * threshold.d > threshold.n * Resolution THEN {TRUE}
    ELSE IF iv.hi * threshold.d <= threshold.n * Resolution THEN {FALSE}
    ELSE {TRUE, FALSE}

\* The truth values of  fidelity < threshold  for the fidelity f that the
\* factors and the decay give.
FidelityBelow(f, factors, threshold) ==
    IF f.nan THEN {FALSE}
    ELSE IF f.zero THEN {TRUE}
    ELSE Below(NarrowByDecay(NarrowAll(WholeInterval, factors, 1), f.decay), threshold)

---------------------------------------------------------------------------
(* estimateQuantumVolumeForCircuit                                         *)

\* The factors of totalCircuitFidelity for the square circuit of size n.
VolumeFactors(arch, n) ==
    LET avgSingleQubitError ==
            RateOr(arch.gateErrors, "single-qubit",
                RateOr(arch.gateErrors, "U3", DEFAULT_PHYSICAL_ERROR_RATE))
        avgTwoQubitError ==
            RateOr(arch.gateErrors, "two-qubit",
                RateOr(arch.gateErrors, "CNOT",
                    RateOr(arch.gateErrors, "CX", DefaultTwoQubitErrorRate)))
    IN  << [rate |-> avgSingleQubitError, count |-> n * n],
           [rate |-> avgTwoQubitError, count |-> (n \div 2) * n],
           [rate |-> AverageReadoutError(arch), count |-> n] >>

\* The values effectiveN can end with, the loop being at size n.
RECURSIVE VolumeLoop(_, _, _, _)
VolumeLoop(arch, circuitWidth, n, effectiveN) ==
    IF n > circuitWidth THEN {effectiveN}
    ELSE UNION { IF passes THEN VolumeLoop(arch, circuitWidth, n + 1, n)
                 ELSE {effectiveN} :
                 passes \in Above(NarrowAll(WholeInterval, VolumeFactors(arch, n), 1),
                                  Rat(2, 3)) }

\* The set of values the build can return: one, unless a fidelity of the
\* loop is within the resolution of 2/3.
estimateQuantumVolumeForCircuit(arch, circuitWidth) ==
    IF circuitWidth <= 0 THEN {1}
    ELSE {2 ^ effectiveN :
            effectiveN \in VolumeLoop(arch,
                                      IF circuitWidth > arch.qubitCount
                                      THEN arch.qubitCount ELSE circuitWidth,
                                      1, 0)}

---------------------------------------------------------------------------
(* generateOptimizationSuggestions                                         *)

\* memory > 4096, false for NaN
MemoryAbove4096(memory) ==
    IF memory.nan THEN FALSE
    ELSE IF memory.inf THEN TRUE
    ELSE \/ memory.e + BitLength(memory.m) > 13
         \/ memory.e + BitLength(memory.m) = 13 /\ memory.m > 1

When(condition, suggestion) == IF condition THEN <<suggestion>> ELSE <<>>

\* The suggestions in the order they are pushed, each named by the test
\* that pushes it; the text of a suggestion quotes fields of the results.
\* lowFidelity and moderateFidelity are circuitFidelity < 0.9 and < 0.95.
generateOptimizationSuggestions(results, arch, lowFidelity, moderateFidelity) ==
    LET ft == results.faultTolerance
    IN  When(\/ results.swapOverhead.count >= Infinity
             \/ 5 * results.swapOverhead.count > results.totalGateCount,
             "swap-overhead")
        \o When(results.coherenceLimited.t1 \/ results.coherenceLimited.t2,
                "coherence-limited")
        \o When(lowFidelity, "low-fidelity")
        \o (IF ft.isEnabled
            THEN When(/\ ft.totalPhysicalQubits > arch.qubitCount * 50
                      /\ ft.totalPhysicalQubits # Infinity,
                      "physical-qubits")
                 \o When(/\ "tGateCount" \in DOMAIN ft
                         /\ ft.tGateCount > 0
                         /\ 2 * ft.resourceStateCount > 3 * ft.tGateCount,
                         "distillation")
            ELSE When(results.tGateCount > 0 /\ moderateFidelity, "moderate-fidelity"))
        \o When(/\ results.circuitDepth > 100
                /\ 3 * results.totalGateCount < results.circuitWidth * results.circuitDepth,
                "low-parallelism")
        \o When(MemoryAbove4096(results.classicalMemoryForSimulationMB),
                "classical-memory")

---------------------------------------------------------------------------
(* estimateAllQuantumResources                                             *)

\* faultTolerance: undefined

\* option, or the default of the destructuring
OptionOr(options, key, default) ==
    IF key \in DOMAIN options THEN options[key] ELSE default

\* times.reduce((s, v) => s + v, 0) / times.length: [nan, inf, r]
AverageOf(times) ==
    IF Len(times) = 0 THEN [nan |-> TRUE, inf |-> FALSE, r |-> RZero]
    ELSE IF Sum(times) >= Infinity THEN [nan |-> FALSE, inf |-> TRUE, r |-> RZero]
    ELSE [nan |-> FALSE, inf |-> FALSE, r |-> Rat(Sum(times), Len(times))]

\* required > average
Exceeds(required, average) ==
    /\ ~average.nan
    /\ ~average.inf
    /\ (required.inf \/ RLess(average.r, required.r))

\* logicalDepth + Math.ceil(swapCount / Math.max(1, Math.floor(qubits / 2)))
CompiledDepth(logicalDepth, swapCount, qubits) ==
    IF swapCount >= Infinity THEN Infinity
    ELSE logicalDepth + CeilDiv(swapCount, Max2(1, qubits \div 2))

\* The results before the suggestions are added: one record for every
\* code distance and quantum volume the build can arrive at.
BasicResults(c, arch, options, now, logicalDepth, swapCount) ==
    { [kind |-> "ok",
       circuitWidth |-> c.qubits,
       circuitDepth |-> logicalDepth,
       gateCounts |-> gateComposition.gateCounts,
       totalGateCount |-> gateComposition.totalGateCount,
       tGateCount |-> gateComposition.tGateCount,
       cliffordGateCount |-> gateComposition.cliffordGateCount,
       nonCliffordGateCount |-> gateComposition.nonCliffordGateCount,
       twoQubitGateCount |-> gateComposition.twoQubitGateCount,
       multiQubitGateCount |-> gateComposition.multiQubitGateCount,
       swapOverhead |->
          [count |-> swapCount,
           algorithm |-> OptionOr(options, "routingAlgorithm", "greedy-router")],
       compiledCircuitDepth |-> compiledDepthEstimate,
       quantumVolumeAchievable |-> qvAchievable,
       estimatedExecutionTimePhysical |-> physicalExecutionTimeNs,
       requiredCoherenceTime |-> [t1 |-> requiredCoherence, t2 |-> requiredCoherence],
       coherenceLimited |->
          [t1 |-> Exceeds(requiredCoherence, AverageOf(arch.t1Times)),
           t2 |-> Exceeds(requiredCoherence, AverageOf(arch.t2Times))],
       circuitFidelity |-> circuitFidelity,
       circuitErrorRate |-> [oneMinus |-> circuitFidelity],
       dominantErrorSource |-> "gate_errors",
       classicalPreprocessingComplexity |-> classicalResources.complexity,
       classicalMemoryForSimulationMB |-> classicalResources.memoryMB,
       faultTolerance |-> ftResults,
       analysisTimestamp |-> now] :
        gateComposition \in {analyzeGateComposition(c)},
        compiledDepthEstimate \in {CompiledDepth(logicalDepth, swapCount, c.qubits)},
        physicalExecutionTimeNs \in
            {estimatePhysicalExecutionTime(
                 c, arch, swapCount,
                 GivenDepth(CompiledDepth(logicalDepth, swapCount, c.qubits)))},
        requiredCoherence \in
            {calculateRequiredCoherence(
                 estimatePhysicalExecutionTime(
                     c, arch, swapCount,
                     GivenDepth(CompiledDepth(logicalDepth, swapCount, c.qubits))))},
        circuitFidelity \in {estimateCircuitFidelity(c, arch, swapCount)},
        qvAchievable \in estimateQuantumVolumeForCircuit(arch, c.qubits),
        classicalResources \in
            {estimateClassicalResources(
                 c, OptionOr(options, "simulationType", "state-vector"))},
        ftResults \in
            IF OptionOr(options, "enableFaultTolerance", FALSE)
            THEN estimateFaultTolerantResources(
                     c.qubits, analyzeGateComposition(c).tGateCount, logicalDepth, arch,
                     OptionOr(options, "targetLogicalErrorRate", PFPow(PFOfInt(10), -15)))
            ELSE {[isEnabled |-> FALSE]} }

\* The results with the suggestions: one record for every way the
\* comparisons of the fidelity with 0.9 and 0.95 can go.
AssembleResults(c, arch, options, now, logicalDepth, swapCount) ==
    { [optimizationSuggestions |->
          generateOptimizationSuggestions(results, arch, below[1], below[2])]
      @@ results :
        results \in BasicResults(c, arch, options, now, logicalDepth, swapCount),
        below \in {b \in FidelityBelow(estimateCircuitFidelity(c, arch, swapCount),
                                       FidelityFactors(c, arch, swapCount), Rat(9, 10))
                         \X FidelityBelow(estimateCircuitFidelity(c, arch, swapCount),
                                          FidelityFactors(c, arch, swapCount),
                                          Rat(95, 100)) :
                     b[1] => b[2]} }

\* The set of outcomes of estimate_all: results, the error thrown by the
\* depth analysis or by the SWAP estimate, or no return at all.
estimateAllQuantumResources(c, arch, options, now) ==
    UNION { IF logicalDepth.kind # "ok" THEN {logicalDepth}
            ELSE UNION { IF swapCount.kind # "ok" THEN {swapCount}
                         ELSE AssembleResults(c, arch, options, now,
                                              logicalDepth.depth, swapCount.count) :
                         swapCount \in
                            {estimateSwapOverheadCount(
                                 c, arch,
                                 OptionOr(options, "routingAlgorithm", "greedy-router"),
                                 NoMapping)} } :
            logicalDepth \in {calculateCircuitLogicalDepth(c)} }

---------------------------------------------------------------------------
(* SpecDepth: a caller that builds a circuit gate by gate and analyses it. *)

\* The operand lists a gate of the depth model may carry: one, two or three
\* qubit indices, index MaxQubits being out of range for every circuit.
DepthOperands ==
    {<<a>> : a \in 0..MaxQubits}
    \cup {x \in (0..MaxQubits) \X (0..MaxQubits) : x[1] < x[2]}
    \cup {<<0, 1, 2>>}

DepthGate(ops) == [type |-> "G", qubits |-> ops]

DefaultArchitecture ==
    [name |-> "none", qubitCount |-> 0, connectivity |-> [type |-> "all-to-all"]]

InitDepth ==
    /\ pc = "ready"
    /\ circuit \in {[qubits |-> n, gates |-> <<>>] : n \in 0..MaxQubits}
    /\ architecture = DefaultArchitecture
    /\ call = NoCall
    /\ result = NoResult
    /\ prev = NoResult

\* analyze(circuit): the depth, or the error thrown.
Analyze ==
    /\ pc = "ready"
    /\ result' = calculateCircuitLogicalDepth(circuit)
    /\ call' = [fn |-> "analyze"]
    /\ pc' = "done"
    /\ UNCHANGED <<circuit, architecture, prev>>

\* The caller puts one more gate into the gate list, at any position, and
\* keeps the analysis of the circuit as it was.
InsertGate ==
    /\ pc = "done"
    /\ Len(circuit.gates) < MaxGates
    /\ \E ops \in DepthOperands, pos \in 1..(Len(circuit.gates) + 1) :
          circuit' = [circuit EXCEPT !.gates = InsertAt(@, pos, DepthGate(ops))]
    /\ prev' = result
    /\ result' = NoResult
    /\ call' = [fn |-> "insert"]
    /\ pc' = "ready"
    /\ UNCHANGED architecture

SpecDepth == InitDepth /\ [][Analyze \/ InsertGate]_vars

\* C5: depth monotonicity.  When a circuit was analysed, a gate was then put
\* into its gate list (at the end or at any other position) and the longer
\* circuit was analysed too, both without error, the depth of the longer
\* circuit is at least the depth of the shorter one.
DepthMonotone ==
    (pc = "done" /\ call.fn = "analyze" /\ prev.kind = "ok" /\ result.kind = "ok")
        => result.depth >= prev.depth

\* A three-gate circuit of depth 3 whose first gate was inserted last, in
\* front of two gates that were already analysed to depth 2.
DepthMonotoneWitness ==
    /\ pc = "done" /\ call.fn = "analyze"
    /\ prev.kind = "ok" /\ prev.depth = 2
    /\ result.kind = "ok" /\ result.depth = 3
    /\ circuit.gates = <<DepthGate(<<0, 1>>), DepthGate(<<1>>), DepthGate(<<1, 2>>)>>

\* Every gate of the circuit references qubits of the circuit only.
ValidCircuit ==
    \A i \in 1..Len(circuit.gates) :
        \A k \in 1..Len(circuit.gates[i].qubits) :
            circuit.gates[i].qubits[k] < circuit.qubits

\* Two gates share at least one qubit.
SharesQubit(g, h) ==
    \E k \in 1..Len(g.qubits), l \in 1..Len(h.qubits) : g.qubits[k] = h.qubits[l]

\* The sets of gate positions that, taken in circuit order, form a path:
\* each gate of the set shares a qubit with the next gate of the set.
DependencyPaths ==
    {S \in SUBSET (1..Len(circuit.gates)) :
        \A i \in S, j \in S :
            (i < j /\ ~\E k \in S : i < k /\ k < j)
                => SharesQubit(circuit.gates[i], circuit.gates[j])}

\* C13: for every valid circuit the depth analyze returns is the length of
\* the critical path, the largest number of gates in circuit order of which
\* each shares a qubit with the next (0 for an empty gate list).
DepthIsCriticalPath ==
    (pc = "done" /\ call.fn = "analyze" /\ ValidCircuit)
        => /\ result.kind = "ok"
           /\ \E S \in DependencyPaths : Cardinality(S) = result.depth
           /\ \A S \in DependencyPaths : Cardinality(S) <= result.depth

\* Three gates of which the first and the last form the critical path: the
\* gate in the middle shares no qubit with the first.
DepthIsCriticalPathWitness ==
    /\ pc = "done" /\ call.fn = "analyze" /\ ValidCircuit
    /\ circuit.gates = <<DepthGate(<<0, 1>>), DepthGate(<<2>>), DepthGate(<<1, 2>>)>>
    /\ result.kind = "ok" /\ result.depth = 2

---------------------------------------------------------------------------
(* SpecSwap: a caller of estimate_swap_overhead.                           *)

Gate(tag, ops) == [type |-> tag, qubits |-> ops]

\* The initial mappings a caller passes: none, the ends of a chain in both
\* orders, permutations, and mappings that fail or slip through validation.
InitialMappings ==
    {NoMapping}
    \cup {GivenMapping(<<0, k - 1>>) : k \in 2..MaxPhysical}
    \cup {GivenMapping(<<k - 1, 0>>) : k \in 2..MaxPhysical}
    \cup {GivenMapping(m) :
            m \in {<<>>, <<0, 0>>, <<0, 1, 2>>, <<2, 0, 1>>, <<0, 1, 1>>,
                   <<1, 0, 0>>, <<0, MaxPhysical>>, <<0, 0, 1, 2>>}}

InitSwap ==
    /\ pc = "ready"
    /\ circuit \in
          \* The routed circuits: gate lists of at most two gates whose operand lists
          \* are 2-qubit gates in both orders, a 1-qubit gate and a 3-qubit gate.  An
          \* index may exceed the circuit's width: the estimator does not validate it.
          LET operands == {<<0, j>> : j \in 1..(MaxLogical - 1)}
                          \cup {<<1, 0>>, <<1, 2>>, <<0>>, <<0, 1, 2>>}
              gateLists == {<<>>}
                           \cup {<<Gate("G", a)>> : a \in operands}
                           \cup {<<Gate("G", a), Gate("G", b)>> : a \in operands, b \in operands}
          IN  {[qubits |-> n, gates |-> g] : n \in 0..MaxLogical, g \in gateLists}
    /\ architecture \in
          \* The architectures routed on: every named topology, and two caller-supplied
          \* adjacencies (two separate pairs, and a one-way chain).
          LET named == {"all-to-all", "linear", "ring", "grid", "heavy-hex", "heavy-square"}
              custom == { << <<1>>, <<0>>, <<3>>, <<2>> >>,
                          << <<1>>, <<2>>, <<>> >> }
              connectivities == {[type |-> t] : t \in named}
                                \cup {[type |-> "custom", adjacencies |-> a] : a \in custom}
          IN  {[name |-> "arch", qubitCount |-> n, connectivity |-> k] :
                  n \in 0..MaxPhysical, k \in connectivities}
    /\ call = NoCall
    /\ result = NoResult
    /\ prev = NoResult

\* estimate_swap_overhead(circuit, architecture, strategy, initial_mapping?)
EstimateSwap ==
    /\ pc = "ready"
    /\ \E alg \in {"shortest-path", "greedy-router"}, m \in InitialMappings :
          /\ call' = [fn |-> "swap", algorithm |-> alg, initialMapping |-> m]
          /\ result' = estimateSwapOverheadCount(circuit, architecture, alg, m)
    /\ pc' = "done"
    /\ UNCHANGED <<circuit, architecture, prev>>

SpecSwap == InitSwap /\ [][EstimateSwap]_vars

SwapDone == pc = "done" /\ call.fn = "swap"

\* C2: on an all-to-all architecture the SWAP estimate is exactly 0, for
\* every circuit (a circuit wider than the architecture included), either
\* strategy and any initial mapping.
AllToAllZeroSwap ==
    (SwapDone /\ architecture.connectivity.type = "all-to-all")
        => result = [kind |-> "ok", count |-> 0]

\* A wider circuit with 2-qubit gates, routed greedily from a given mapping
\* on an all-to-all architecture.
AllToAllZeroSwapWitness ==
    /\ SwapDone
    /\ architecture.connectivity.type = "all-to-all"
    /\ circuit.qubits > architecture.qubitCount
    /\ Len(circuit.gates) = 2 /\ Len(circuit.gates[1].qubits) = 2
    /\ call.algorithm = "greedy-router" /\ call.initialMapping.given
    /\ result.count = 0

\* C3 as claimed: a circuit wider than the architecture gets Infinity on
\* every connectivity type.
TooWideInfiniteEverywhere ==
    (SwapDone /\ circuit.qubits > architecture.qubitCount)
        => result = [kind |-> "ok", count |-> Infinity]

\* C3, amended: a circuit wider than the architecture gets Infinity on every
\* connectivity type other than all-to-all, for either strategy and any
\* initial mapping.
TooWideInfinite ==
    (SwapDone /\ circuit.qubits > architecture.qubitCount
        /\ architecture.connectivity.type # "all-to-all")
        => result = [kind |-> "ok", count |-> Infinity]

\* A 3-qubit circuit on a 2-qubit ring, with a mapping given.
TooWideInfiniteWitness ==
    /\ SwapDone
    /\ circuit.qubits = 3 /\ architecture.qubitCount = 2
    /\ architecture.connectivity.type = "ring"
    /\ call.initialMapping.given
    /\ result.count = Infinity

\* The gates of the circuit with exactly two operands.
TwoQubitGates == {i \in 1..Len(circuit.gates) : Len(circuit.gates[i].qubits) = 2}

\* The physical positions the estimator routes the operands of gate i from.
RoutedFrom(i) ==
    LET m == ValidatedMapping(circuit, architecture, call.initialMapping)
        g == circuit.gates[i]
    IN  IF Mapped(m, g.qubits[1]) /\ Mapped(m, g.qubits[2])
        THEN {m[g.qubits[1] + 1], m[g.qubits[2] + 1]}
        ELSE {}

\* The circuit fits a linear chain of k >= 2 qubits, has a single 2-qubit
\* gate, and that gate's logical qubits sit on the two ends of the chain.
EndToEndOnChain ==
    /\ architecture.connectivity.type = "linear"
    /\ architecture.qubitCount >= 2
    /\ circuit.qubits <= architecture.qubitCount
    /\ Cardinality(TwoQubitGates) = 1
    /\ \A i \in TwoQubitGates : RoutedFrom(i) = {0, architecture.qubitCount - 1}

\* C4: a single 2-qubit gate between the two ends of a k-qubit linear chain
\* (k >= 2) costs exactly k - 2 SWAPs under the shortest-path strategy.
LinearChainSwaps ==
    (SwapDone /\ call.algorithm = "shortest-path" /\ EndToEndOnChain)
        => result = [kind |-> "ok", count |-> architecture.qubitCount - 2]

\* The chain of MaxPhysical qubits, its ends given by an initial mapping.
LinearChainSwapsWitness ==
    /\ SwapDone /\ call.algorithm = "shortest-path" /\ EndToEndOnChain
    /\ architecture.qubitCount = MaxPhysical
    /\ call.initialMapping = GivenMapping(<<MaxPhysical - 1, 0>>)
    /\ result.count = MaxPhysical - 2

\* The caller passed a mapping that puts two logical qubits of the circuit
\* on the same physical qubit, or a logical qubit of the circuit on a
\* physical index the architecture does not have.
InvalidMappingGiven ==
    /\ call.initialMapping.given
    /\ LET m == call.initialMapping.map
           logical == {i \in 1..Len(m) : i <= circuit.qubits}
       IN  \/ \E i \in logical, j \in logical : i < j /\ m[i] = m[j]
           \/ \E i \in logical : m[i] >= architecture.qubitCount

\* C11: when the circuit fits the architecture and the initial mapping given
\* is invalid (two logical qubits on one physical qubit, or a physical index
\* >= the architecture's qubit count), the greedy router does not fail and
\* returns exactly the count it returns when no mapping is given.
InvalidMappingReset ==
    (/\ SwapDone
     /\ call.algorithm = "greedy-router"
     /\ circuit.qubits <= architecture.qubitCount
     /\ InvalidMappingGiven)
    => /\ result.kind = "ok"
       /\ result = estimateSwapOverheadCount(circuit, architecture,
                                             "greedy-router", NoMapping)

RECURSIVE WithinSteps(_, _, _)
WithinSteps(adj, a, k) ==
    IF k = 0 THEN {a}
    ELSE LET near == WithinSteps(adj, a, k - 1)
         IN  near \cup UNION {{adj[x + 1][n] : n \in 1..Len(adj[x + 1])} :
                                  x \in {y \in near : y >= 0 /\ y < Len(adj)}}

\* distance(graph, a, b): the number of edges of a shortest path from a to
\* b, 0 when a = b, Infinity when there is no path or a or b is not an
\* index of the graph.
GraphDistance(adj, a, b) ==
    IF a = b THEN 0
    ELSE IF a < 0 \/ a >= Len(adj) \/ b < 0 \/ b >= Len(adj) THEN Infinity
    ELSE LET lengths == {k \in 1..Len(adj) : b \in WithinSteps(adj, a, k)}
         IN  IF lengths = {} THEN Infinity
             ELSE CHOOSE k \in lengths : \A l \in lengths : k <= l

\* max(distance(M(q_a), M(q_b)) - 1, 0) for gate i under mapping M, and 0
\* for a gate that has not exactly 2 operands.
SwapTerm(i, M, adj) ==
    LET g == circuit.gates[i]
    IN  IF Len(g.qubits) # 2 THEN 0
        ELSE LET d == GraphDistance(adj, M[g.qubits[1] + 1], M[g.qubits[2] + 1])
             IN  IF d >= Infinity THEN Infinity ELSE IF d >= 1 THEN d - 1 ELSE 0

\* The sum of the terms of gates i, i + 1, ..., Infinity absorbing.
RECURSIVE SwapTermsFrom(_, _, _)
SwapTermsFrom(i, M, adj) ==
    IF i > Len(circuit.gates) THEN 0
    ELSE LET rest == SwapTermsFrom(i + 1, M, adj)
             term == SwapTerm(i, M, adj)
         IN  IF rest >= Infinity \/ term >= Infinity THEN Infinity ELSE term + rest

\* C15: under the shortest-path strategy, on a valid circuit that fits the
\* architecture, the result is the sum over the gates with exactly 2
\* operands of max(distance(M(q_a), M(q_b)) - 1, 0), M being the validated
\* initial mapping; gates of 1 or of more than 2 operands add nothing.
ShortestPathSum ==
    (/\ SwapDone
     /\ call.algorithm = "shortest-path"
     /\ circuit.qubits <= architecture.qubitCount
     /\ ValidCircuit)
    => result = [kind |-> "ok",
                 count |-> SwapTermsFrom(1,
                              ValidatedMapping(circuit, architecture, call.initialMapping),
                              buildAdjacencyList(architecture))]

\* Two gates between the same ends of a chain, the second with its operands
\* exchanged: each costs the whole distance less one, from the given mapping.
ShortestPathSumWitness ==
    /\ SwapDone /\ call.algorithm = "shortest-path" /\ ValidCircuit
    /\ architecture.connectivity.type = "linear"
    /\ architecture.qubitCount = MaxPhysical
    /\ call.initialMapping = GivenMapping(<<0, MaxPhysical - 1>>)
    /\ circuit.gates = <<Gate("G", <<0, 1>>), Gate("G", <<1, 0>>)>>
    /\ result.count = 2 * (MaxPhysical - 2)

\* C16: the shortest-path strategy is a lower bound of the greedy router:
\* on the same circuit, architecture and initial mapping its count is at
\* most the count the greedy router returns.
ShortestPathLowerBound ==
    (SwapDone /\ call.algorithm = "greedy-router" /\ result.kind = "ok")
        => LET lower == estimateSwapOverheadCount(circuit, architecture,
                            "shortest-path", call.initialMapping)
           IN  lower.kind = "ok" /\ lower.count <= result.count

---------------------------------------------------------------------------
(* SpecRouter: one call of estimate_swap_overhead with the greedy router,  *)
(* followed pass by pass.  While the router runs, result holds its local   *)
(* variables: the position in the gate list, currentMapping, totalSwaps    *)
(* and activePhysicalQubits.  One step is one evaluation of the head of    *)
(* the for loop (a gate is skipped, or the function returns) or one pass   *)
(* of the while loop of the gate at hand.                                  *)

\* Largest SWAP total up to which the passes of the router are followed.
MaxSwaps == 8

InitRouter ==
    /\ pc = "ready"
    /\ circuit \in
          LET operands == {<<0, 1>>, <<1, 0>>, <<0, 2>>, <<2, 3>>, <<3, 0>>, <<0>>, <<0, 1, 2>>}
              gateLists == {<<Gate("G", a)>> : a \in operands}
                           \cup {<<Gate("G", a), Gate("G", b)>> :
                                   a \in operands, b \in {<<0, 1>>, <<0, 2>>, <<2, 3>>}}
          IN  {c \in {[qubits |-> n, gates |-> g] : n \in 2..MaxPhysical, g \in gateLists} :
                  \A i \in 1..Len(c.gates) : \A k \in 1..Len(c.gates[i].qubits) :
                      c.gates[i].qubits[k] < c.qubits}
    /\ architecture \in
          LET named == {"all-to-all", "linear", "ring", "grid", "heavy-hex"}
              custom == { << <<1>>, <<0>>, <<3>>, <<2>> >>,
                          << <<1>>, <<2>>, <<3>>, <<>> >>,
                          << <<1>>, <<2>>, <<3>>, <<0>> >> }
          IN  {[name |-> "arch", qubitCount |-> n, connectivity |-> [type |-> t]] :
                  n \in 2..MaxPhysical, t \in named}
              \cup {[name |-> "arch", qubitCount |-> MaxPhysical,
                     connectivity |-> [type |-> "custom", adjacencies |-> a]] :
                       a \in custom}
    /\ call = NoCall
    /\ result = NoResult
    /\ prev = NoResult

\* The call, up to the first gate: the all-to-all and the width tests, the
\* validation of the mapping, totalSwaps = 0 and activePhysicalQubits.  The
\* mappings given: none, permutations, a mapping with a duplicate and
\* mappings longer than the circuit is wide.
StartRouting ==
    /\ pc = "ready"
    /\ \E m \in {NoMapping} \cup {GivenMapping(x) :
                    x \in {<<0, 1>>, <<1, 0>>, <<0, 0>>, <<0, 3>>, <<2, 0, 1>>, <<0, 3, 1>>,
                           <<3, 1, 2, 0>>, <<0, 2, 1, 3>>, <<0, 0, 1, 2>>,
                           <<0, 1, 0, 3, 2>>}} :
          /\ call' = [fn |-> "route", initialMapping |-> m]
          /\ IF AllToAll(circuit, architecture)
             THEN result' = [kind |-> "ok", count |-> 0] /\ pc' = "done"
             ELSE IF circuit.qubits > architecture.qubitCount
             THEN result' = Unmappable /\ pc' = "done"
             ELSE LET mapping == ValidatedMapping(circuit, architecture, m)
                  IN  /\ result' = [kind |-> "routing", gate |-> 1, mapping |-> mapping,
                                    totalSwaps |-> 0, active |-> SeqRange(mapping)]
                      /\ pc' = "routing"
    /\ prev' = result
    /\ UNCHANGED <<circuit, architecture>>

\* The head of the for loop, or one pass of the while loop, from the
\* router's local variables: the variables after it, or the value returned.
RouterPass(c, arch, router) ==
    LET i == router.gate
    IN  IF i > Len(c.gates) THEN [kind |-> "ok", count |-> router.totalSwaps]
        ELSE IF Len(c.gates[i].qubits) # 2
                \/ ~Mapped(router.mapping, c.gates[i].qubits[1])
                \/ ~Mapped(router.mapping, c.gates[i].qubits[2])
        THEN [router EXCEPT !.gate = i + 1]
        ELSE CHOOSE next \in
                 { IF it.next = "throw" THEN SwapThrow
                   ELSE [router EXCEPT
                            !.gate = IF it.next = "stay" THEN i ELSE i + 1,
                            !.mapping = it.mapping,
                            !.totalSwaps = it.totalSwaps] :
                   it \in {GreedyIteration(c.gates[i].qubits[1], c.gates[i].qubits[2],
                                           router.mapping, adj, router.active,
                                           router.totalSwaps) :
                               adj \in {buildAdjacencyList(arch)}} } : TRUE

RouteStep ==
    /\ pc = "routing"
    /\ result.totalSwaps >= Infinity \/ result.totalSwaps < MaxSwaps
    /\ \E next \in {RouterPass(circuit, architecture, result)} :
          /\ result' = next
          /\ pc' = IF next.kind = "routing" THEN "routing" ELSE "done"
    /\ prev' = result
    /\ UNCHANGED <<circuit, architecture, call>>

SpecRouter == InitRouter /\ [][StartRouting \/ RouteStep]_vars

\* C17: the greedy router terminates for every input.  A pass of the while
\* loop is a function of the gate at hand and of the mapping alone, so a
\* call that returns never has, while it routes one gate, the mapping it
\* had two passes before: from there the same passes would repeat for ever.
RouterTerminates ==
    [][(/\ pc = "routing" /\ pc' = "routing"
        /\ prev.kind = "routing"
        /\ prev.gate = result.gate /\ result'.gate = result.gate)
       => result'.mapping # prev.mapping]_vars

\* A pass of the while loop has applied a SWAP: the mapping has changed.
SwapApplied ==
    /\ pc = "routing" /\ pc' = "routing"
    /\ result'.mapping # result.mapping

\* The distance between the physical positions of the operands of the gate
\* the router is at, under the router's mapping.
OperandDistance(router) ==
    LET g == circuit.gates[router.gate]
    IN  GraphDistance(buildAdjacencyList(architecture),
                      router.mapping[g.qubits[1] + 1], router.mapping[g.qubits[2] + 1])

\* C18: every SWAP the greedy router applies while it routes a 2-qubit gate
\* exchanges the physical positions of exactly two logical qubits, adds
\* exactly one to the SWAP total, and leaves the distance between the
\* physical positions of the gate's two qubits strictly smaller than before.
SwapImproves ==
    [][SwapApplied =>
        /\ \E a \in DOMAIN result.mapping, b \in DOMAIN result.mapping :
              /\ a # b
              /\ result'.mapping = [[result.mapping EXCEPT ![a] = result.mapping[b]]
                                        EXCEPT ![b] = result.mapping[a]]
        /\ result'.totalSwaps = result.totalSwaps + 1
        /\ OperandDistance([result' EXCEPT !.gate = result.gate])
              < OperandDistance(result)]_vars

\* No physical qubit holds two logical qubits.
Injective(mapping) ==
    \A i \in 1..Len(mapping), j \in 1..Len(mapping) :
        mapping[i] = mapping[j] => i = j

\* C28: throughout greedy routing the live mapping stays injective and the
\* set of physical qubits it occupies stays that of the validated initial
\* mapping; the mapping the caller passed is left as it was.
MappingStaysInjective ==
    pc = "routing"
    => /\ Injective(result.mapping)
       /\ SeqRange(result.mapping)
            = SeqRange(ValidatedMapping(circuit, architecture, call.initialMapping))
       /\ SeqRange(result.mapping) = result.active

\* b is in adj[a] exactly when a is in adj[b].
Symmetric(adj) ==
    \A a \in 1..Len(adj) : \A k \in 1..Len(adj[a]) :
        /\ HasNode(adj, adj[a][k])
        /\ \E j \in 1..Len(adj[adj[a][k] + 1]) : adj[adj[a][k] + 1][j] = a - 1

\* The circuit has one gate, on two qubits, and the adjacency is symmetric.
SingleGateOnSymmetric ==
    /\ call.fn = "route"
    /\ Len(circuit.gates) = 1
    /\ Len(circuit.gates[1].qubits) = 2
    /\ Symmetric(buildAdjacencyList(architecture))

\* C29: on a symmetric adjacency the greedy router raises the SWAP total for
\* a 2-qubit gate by max(d - 1, 0), d the distance between the gate's
\* physical qubits when the gate is reached; for a circuit of one 2-qubit
\* gate the total never passes that number while the gate is routed, and
\* the count returned is the count of the shortest-path strategy.
GreedyEqualsShortestPath ==
    SingleGateOnSymmetric
    => \E sp \in {estimateSwapOverheadCount(circuit, architecture, "shortest-path",
                                            call.initialMapping)} :
          /\ pc = "routing" => result.totalSwaps <= sp.count
          /\ pc = "done" => result = sp

---------------------------------------------------------------------------
(* SpecGraph: one call of the graph builder on a named topology of any     *)
(* size or on an adjacency of the caller's.                                *)

MaxGraphQubits == 12

InitGraph ==
    /\ pc = "ready"
    /\ circuit = [qubits |-> 0, gates |-> <<>>]
    /\ architecture \in
          {[name |-> "arch", qubitCount |-> n, connectivity |-> [type |-> t]] :
              n \in 0..MaxGraphQubits,
              t \in {"linear", "ring", "grid", "heavy-hex", "heavy-square"}}
          \cup
          {[name |-> "arch", qubitCount |-> n,
            connectivity |-> [type |-> "all-to-all"]] : n \in 0..MaxPhysical}
          \cup
          {[name |-> "arch", qubitCount |-> n,
            connectivity |-> [type |-> "custom", adjacencies |-> a]] :
              n \in 2..3,
              a \in {<< <<1>>, <<0>> >>, << <<1>>, <<>> >>,
                     << <<1, 1>>, <<0>> >>, << <<1>>, <<0, 2>>, <<1>> >>,
                     << <<1, 2>>, <<0>>, <<0>> >>}}
    /\ call = NoCall
    /\ result = NoResult
    /\ prev = NoResult

\* buildAdjacencyList(architecture)
BuildGraph ==
    /\ pc = "ready"
    /\ call' = [fn |-> "buildAdjacencyList"]
    /\ result' = [kind |-> "ok", adj |-> buildAdjacencyList(architecture)]
    /\ pc' = "done"
    /\ UNCHANGED <<circuit, architecture, prev>>

SpecGraph == InitGraph /\ [][BuildGraph]_vars

GraphDone == pc = "done" /\ call.fn = "buildAdjacencyList"

\* One entry per physical qubit, no neighbour twice in an entry, and b in
\* adj[a] exactly when a in adj[b].
WellFormedGraph(adj, n) ==
    /\ Len(adj) = n
    /\ \A a \in 1..Len(adj) : \A j \in 1..Len(adj[a]), k \in 1..Len(adj[a]) :
          adj[a][j] = adj[a][k] => j = k
    /\ \A a \in 0..(n - 1), b \in 0..(n - 1) :
          (HasNode(adj, a) /\ \E k \in 1..Len(adj[a + 1]) : adj[a + 1][k] = b)
          <=> (HasNode(adj, b) /\ \E k \in 1..Len(adj[b + 1]) : adj[b + 1][k] = a)

\* C19 as stated: for every architecture and every connectivity, a custom
\* adjacency included, the graph built has one entry per physical qubit, no
\* duplicate neighbour in any entry, and is undirected.
GraphWellFormedEverywhere ==
    GraphDone => WellFormedGraph(result.adj, architecture.qubitCount)

\* C19, amended: for every architecture and every named connectivity the
\* graph built has one entry per physical qubit, no duplicate neighbour in
\* any entry, and is undirected; a custom adjacency is returned as supplied.
GraphWellFormed ==
    GraphDone =>
        IF architecture.connectivity.type = "custom"
        THEN result.adj = architecture.connectivity.adjacencies
        ELSE WellFormedGraph(result.adj, architecture.qubitCount)

\* A ring of two qubits: both pushes of the loop add the same neighbour, and
\* the entry keeps it once.
GraphWellFormedWitness ==
    /\ GraphDone
    /\ architecture.connectivity.type = "ring"
    /\ architecture.qubitCount = 2
    /\ result.adj = << <<1>>, <<0>> >>

\* The pairs (a, b) with b in adj[a].
EdgeSet(adj) ==
    UNION {{<<a - 1, adj[a][k]>> : k \in 1..Len(adj[a])} : a \in 1..Len(adj)}

\* An undirected edge set over the qubits 0..n-1, as pairs in both orders.
Undirected(edges, n) ==
    LET among == {e \in edges : e[1] \in 0..(n - 1) /\ e[2] \in 0..(n - 1)}
    IN  among \cup {<<e[2], e[1]>> : e \in among}

\* The edge set the specification gives for each named topology.
SpecifiedEdges(type, n) ==
    LET linear == {<<i, i + 1>> : i \in 0..(n - 2)}
        side == CHOOSE s \in 0..n : s * s >= n /\ (s = 0 \/ (s - 1) * (s - 1) < n)
        at(r, c) == r * side + c
        cells == (0..(side - 1)) \X (0..(side - 1))
    IN  CASE type = "linear" -> linear
          [] type = "ring" -> linear \cup {<<n - 1, 0>>}
          [] type = "grid" ->
                {<<at(rc[1], rc[2]), at(rc[1], rc[2] + 1)>> :
                    rc \in {x \in cells : x[2] + 1 < side}}
                \cup {<<at(rc[1], rc[2]), at(rc[1] + 1, rc[2])>> :
                    rc \in {x \in cells : x[1] + 1 < side}}
          [] type \in {"heavy-hex", "heavy-square"} ->
                linear \cup {<<i, i + 2>> : i \in {j \in 0..(n - 1) : j % 3 = 0 /\ j + 2 < n}}

\* C20: for every n >= 0 the edge set built for a named topology is the
\* specified one: linear the chain, ring the chain closed by (n-1, 0), grid
\* the right and below neighbours of the row-major layout of side
\* ceil(sqrt(n)) among the indices below n, heavy-hex and heavy-square alike
\* the chain plus (i, i+2) for every i with i % 3 = 0 and i + 2 < n.
NamedTopologyEdges ==
    (GraphDone /\ architecture.connectivity.type
                    \in {"linear", "ring", "grid", "heavy-hex", "heavy-square"})
    => /\ Len(result.adj) = architecture.qubitCount
       /\ EdgeSet(result.adj)
            = Undirected(SpecifiedEdges(architecture.connectivity.type,
                                        architecture.qubitCount),
                         architecture.qubitCount)

\* A grid of seven qubits: side 3, the last row holds qubit 6 alone.
NamedTopologyEdgesWitness ==
    /\ GraphDone
    /\ architecture.connectivity.type = "grid"
    /\ architecture.qubitCount = 7
    /\ <<3, 6>> \in EdgeSet(result.adj)
    /\ <<2, 3>> \notin EdgeSet(result.adj)
    /\ <<4, 5>> \in EdgeSet(result.adj)

---------------------------------------------------------------------------
(* SpecDistance: a caller that builds the graph of an architecture and     *)
(* asks for distances on it, one call after the other.                     *)

MaxDistanceQubits == 5

InitDistance ==
    /\ pc = "ready"
    /\ circuit = [qubits |-> 0, gates |-> <<>>]
    /\ architecture \in
          {[name |-> "arch", qubitCount |-> n, connectivity |-> [type |-> t]] :
              n \in 0..MaxDistanceQubits,
              t \in {"all-to-all", "linear", "ring", "grid", "heavy-hex",
                     "heavy-square"}}
          \cup
          {[name |-> "arch", qubitCount |-> 3,
            connectivity |-> [type |-> "custom", adjacencies |-> a]] :
              a \in {<< <<1>>, <<>>, <<1>> >>, << <<1>>, <<0>>, <<>> >>,
                     << <<2>>, <<>> >>, << <<1>>, <<0, 3>>, <<>> >>}}
    /\ call = NoCall
    /\ result = NoResult
    /\ prev = NoResult

\* shortestPathDistance(startNode, endNode, buildAdjacencyList(architecture));
\* the caller keeps the call before and what it returned.
MeasureDistance ==
    /\ pc \in {"ready", "done"}
    /\ \E startNode \in (-1)..architecture.qubitCount,
          endNode \in (-1)..architecture.qubitCount :
          /\ call' = [fn |-> "shortestPathDistance", startNode |-> startNode,
                       endNode |-> endNode]
          /\ \E dist \in {shortestPathDistance(startNode, endNode,
                                                 buildAdjacencyList(architecture))} :
                result' = IF dist = TypeErrorValue THEN SwapThrow
                          ELSE [kind |-> "ok", dist |-> dist]
    /\ prev' = IF pc = "done" THEN [kind |-> "call", call |-> call, result |-> result]
                ELSE NoResult
    /\ pc' = "done"
    /\ UNCHANGED <<circuit, architecture>>

SpecDistance == InitDistance /\ [][MeasureDistance]_vars

DistanceDone == pc = "done" /\ call.fn = "shortestPathDistance"

\* Both a and b are indices of the graph built.
InRange(i) == i >= 0 /\ i < Len(buildAdjacencyList(architecture))

\* C21: on the graph built for a named topology and for in-range a and b,
\* distance(graph, a, b) is the number of edges of a shortest path from a to
\* b (0 when a = b, +infinity when b cannot be reached from a), and a call
\* repeated on the same arguments returns the same value.
DistanceIsShortestPath ==
    (/\ DistanceDone
     /\ architecture.connectivity.type # "custom"
     /\ InRange(call.startNode) /\ InRange(call.endNode))
    => /\ result.kind = "ok"
       /\ result.dist = GraphDistance(buildAdjacencyList(architecture),
                                      call.startNode, call.endNode)
       /\ call.startNode = call.endNode => result.dist = 0
       /\ (prev.kind = "call" /\ prev.call = call) => prev.result = result

\* A ring of five qubits, from 0 to 3 twice: two edges, round the closing edge.
DistanceIsShortestPathWitness ==
    /\ DistanceDone
    /\ architecture.connectivity.type = "ring"
    /\ architecture.qubitCount = 5
    /\ call.startNode = 0 /\ call.endNode = 3
    /\ prev.kind = "call" /\ prev.call = call
    /\ result = [kind |-> "ok", dist |-> 2]

\* C22: the helpers never fail: for every architecture and every
\* connectivity, any custom adjacency included, building the graph and
\* distance(graph, a, b) complete without an error for every a and b.
HelpersNeverFail == DistanceDone => result.kind = "ok"

\* C30 as stated: distance(graph, a, b) is +infinity whenever a or b is not
\* an index of the graph, the case a = b included.
OutOfRangeInfiniteEverywhere ==
    (DistanceDone /\ result.kind = "ok"
     /\ (~InRange(call.startNode) \/ ~InRange(call.endNode)))
    => result.dist = Infinity

\* C30, amended: distance(graph, a, b) is +infinity whenever a or b is not
\* an index of the graph and a # b; for a = b it is 0, in range or not.
OutOfRangeInfinite ==
    (DistanceDone /\ (~InRange(call.startNode) \/ ~InRange(call.endNode)))
    => /\ result.kind = "ok"
       /\ result.dist = IF call.startNode = call.endNode THEN 0 ELSE Infinity

\* From an index of the graph to the first index beyond it.
OutOfRangeInfiniteWitness ==
    /\ DistanceDone
    /\ architecture.connectivity.type = "linear"
    /\ architecture.qubitCount = 3
    /\ call.startNode = 0 /\ call.endNode = 3
    /\ result = [kind |-> "ok", dist |-> Infinity]

---------------------------------------------------------------------------
(* SpecFidelity: one call of the timing or of the fidelity estimator, on a *)
(* circuit of at most two gates and an architecture whose tables declare   *)
(* rates and durations, a rate or a duration of 0 included.                *)

\* An empty gateErrors or gateTimings table.
NoEntries == [key \in {} |-> 0]

GateTimingTables ==
    { NoEntries,
      "H" :> 25 @@ "CNOT" :> 0 @@ "measurement" :> 0,
      "single-qubit" :> 20 @@ "two-qubit" :> 100 @@ "CNOT" :> 150 }

InitFidelity ==
    /\ pc = "ready"
    /\ circuit \in
          LET gates == {Gate("H", <<0>>), Gate("CNOT", <<0, 1>>)}
                       \cup {[type |-> "H", qubits |-> <<0>>, fidelity |-> f] :
                               f \in {ROne, Rat(99, 100), RZero}}
                       \cup {[type |-> "CNOT", qubits |-> <<0, 1>>, duration |-> d] :
                               d \in {0, 50}}
              gateLists == {<<>>} \cup {<<g>> : g \in gates}
                           \cup {<<Gate("H", <<0>>), g>> : g \in gates}
          IN  {[qubits |-> n, gates |-> g] : n \in 1..2, g \in gateLists}
    /\ architecture \in
          LET gateErrors ==
                  { NoEntries,
                    "H" :> RZero,
                    "H" :> Rat(1, 100),
                    "single-qubit" :> Rat(1, 500),
                    "CX" :> Rat(1, 200),
                    "single-qubit" :> RZero @@ "two-qubit" :> RZero,
                    "H" :> RZero @@ "CNOT" :> RZero @@ "single-qubit" :> RZero
                        @@ "two-qubit" :> RZero }
              readoutErrors ==
                  { RateList(<<>>), RateList(<<RZero>>), RateList(<<RZero, RZero>>),
                    RateList(<<Rat(1, 100), RZero>>), RateNumber(RZero),
                    RateNumber(Rat(1, 100)) }
              times == { <<>>, <<0>>, <<80>>, <<100, 60>>, <<Infinity>> }
          IN  {[name |-> "arch", qubitCount |-> 2, connectivity |-> [type |-> "all-to-all"],
                gateErrors |-> e, readoutErrors |-> r, t1Times |-> t, t2Times |-> t,
                gateTimings |-> g] :
                  e \in gateErrors, r \in readoutErrors, t \in times,
                  g \in GateTimingTables}
    /\ call = NoCall
    /\ result = NoResult
    /\ prev = NoResult

\* estimate_time(circuit, architecture, swap_count, compiled_depth?)
EstimateTime ==
    /\ pc = "ready"
    /\ \E swapCount \in {0, 2, Infinity}, depth \in {NoDepth, GivenDepth(0), GivenDepth(3)} :
          /\ call' = [fn |-> "time", swapCount |-> swapCount, compiledDepth |-> depth]
          /\ result' = [kind |-> "ok",
                        timeNs |-> estimatePhysicalExecutionTime(circuit, architecture,
                                                                 swapCount, depth)]
    /\ pc' = "done"
    /\ UNCHANGED <<circuit, architecture, prev>>

\* estimate_fidelity(circuit, architecture, swap_count)
EstimateFidelity ==
    /\ pc = "ready"
    /\ \E swapCount \in {0, 1, Infinity} :
          /\ call' = [fn |-> "fidelity", swapCount |-> swapCount]
          /\ result' = [kind |-> "ok",
                        fidelity |-> estimateCircuitFidelity(circuit, architecture, swapCount)]
    /\ pc' = "done"
    /\ UNCHANGED <<circuit, architecture, prev>>

SpecFidelity == InitFidelity /\ [][EstimateTime \/ EstimateFidelity]_vars

\* The readout errors are declared, and every one of them is 0.
ZeroReadoutError(arch) ==
    /\ Len(arch.readoutErrors.values) > 0
    /\ \A i \in 1..Len(arch.readoutErrors.values) : arch.readoutErrors.values[i] = RZero

\* C6: for a circuit of exactly one gate whose error rate is epsilon (from
\* the gate's fidelity override, or else the rate the architecture declares
\* for it), with no SWAPs and zero readout error, the fidelity estimate is
\* 1 - epsilon.
OneGateFidelity ==
    (/\ pc = "done"
     /\ call.fn = "fidelity"
     /\ call.swapCount = 0
     /\ Len(circuit.gates) = 1
     /\ ZeroReadoutError(architecture))
    => result.fidelity
         = FidelityOf(RSub(ROne, GateErrorRateDeclared(circuit.gates[1], architecture)))

\* The duration a gate contributes by the specification: its override
\* whenever it carries one, else the per-tag timing, else the fallback of
\* its category.
GateDurationDeclared(gate, arch) ==
    IF "duration" \in DOMAIN gate THEN gate.duration
    ELSE IF Len(gate.qubits) > 1
         THEN TimeOr(arch.gateTimings, gate.type,
                     TimeOr(arch.gateTimings, "two-qubit", BenchmarkTwoQubitTime))
         ELSE TimeOr(arch.gateTimings, gate.type,
                     TimeOr(arch.gateTimings, "single-qubit", BenchmarkSingleQubitTime))

\* C23: in the sequential-sum branch of estimate_execution_time (no positive
\* compiled depth given) every gate contributes its duration override
\* whenever it carries one, an override of 0 included; only a gate without
\* an override falls back to the per-tag timing and then to the
\* single/two-qubit fallback.
OverrideAlwaysUsed ==
    (/\ pc = "done"
     /\ call.fn = "time"
     /\ ~(call.compiledDepth.given /\ call.compiledDepth.value > 0))
    => result.timeNs
         = Plus(Plus(Sum([i \in 1..Len(circuit.gates) |->
                            GateDurationDeclared(circuit.gates[i], architecture)]),
                     Times(call.swapCount,
                           3 * TimeOr(architecture.gateTimings, "CNOT",
                                      TimeOr(architecture.gateTimings, "two-qubit",
                                             BenchmarkTwoQubitTime)))),
                circuit.qubits * TimeOr(architecture.gateTimings, "measurement",
                                        BenchmarkMeasurementTime))

---------------------------------------------------------------------------
(* SpecFT: one call of the fault-tolerance estimator.                      *)

InitFT ==
    /\ pc = "ready"
    /\ circuit \in {[qubits |-> n, gates |-> <<>>] : n \in 0..MaxLogical}
    /\ architecture \in
          \* Architectures whose declared two-qubit and CNOT error rates are: none,
          \* 0, below, at and above the threshold.
          LET gateErrors ==
                  { NoEntries,
                    "two-qubit" :> RZero,
                    "two-qubit" :> Rat(1, 1000),
                    "two-qubit" :> Rat(1, 100),
                    "two-qubit" :> Rat(1, 50),
                    "CNOT" :> Rat(9, 1000),
                    "CNOT" :> Rat(1, 100),
                    "two-qubit" :> RZero @@ "CNOT" :> Rat(1, 200),
                    "two-qubit" :> RZero @@ "CNOT" :> Rat(1, 20),
                    "two-qubit" :> Rat(1, 1000) @@ "CNOT" :> Rat(1, 10),
                    "two-qubit" :> Rat(1, 10) @@ "CNOT" :> Rat(1, 1000) }
          IN  {[name |-> "arch", qubitCount |-> MaxPhysical,
                connectivity |-> [type |-> "all-to-all"],
                gateErrors |-> e, readoutErrors |-> RateList(<<>>),
                t1Times |-> <<>>, t2Times |-> <<>>, gateTimings |-> g] :
                  e \in gateErrors, g \in GateTimingTables}
    /\ call = NoCall
    /\ result = NoResult
    /\ prev = NoResult

\* estimate_fault_tolerant_resources(logical_qubits, t_gates, depth,
\* architecture, target), for the target logical error rates 1e-15 (the
\* default), 0.1 (A itself), 0.5 and 3e-5.
EstimateFT ==
    /\ pc = "ready"
    /\ \E tGateCount \in 0..1, depth \in 0..MaxGates,
          target \in { PFPow(PFOfInt(10), -15), PFPow(PFOfInt(10), -1),
                       PFPow(PFOfInt(2), -1), PFOfRat(Rat(3, 100000)) } :
          /\ call' = [fn |-> "ft", tGateCount |-> tGateCount, depth |-> depth,
                      target |-> target]
          /\ \E ft \in estimateFaultTolerantResources(circuit.qubits, tGateCount, depth,
                                                      architecture, target) :
                result' = [kind |-> "ok", faultTolerance |-> ft]
    /\ pc' = "done"
    /\ UNCHANGED <<circuit, architecture, prev>>

SpecFT == InitFT /\ [][EstimateFT]_vars

\* C8: whenever the physical error rate the fault-tolerance estimator uses
\* is at least 0.01, the Surface Code threshold, the estimator returns a
\* record (it does not throw) whose code distance, physical qubits per
\* logical qubit, total physical qubits, overhead factor, logical cycle
\* time, total logical execution time and resource state count are all
\* +infinity.
InfeasibleAtThreshold ==
    (/\ pc = "done"
     /\ call.fn = "ft"
     /\ RLeq(Rat(1, 100), PhysicalErrorRate(architecture)))
    => /\ result.kind = "ok"
       /\ result.faultTolerance.codeDistance = Infinity
       /\ result.faultTolerance.physicalQubitsPerLogical = Infinity
       /\ result.faultTolerance.totalPhysicalQubits = Infinity
       /\ result.faultTolerance.errorCorrectionOverheadFactor = Infinity
       /\ result.faultTolerance.logicalTimeUnitDuration = Infinity
       /\ result.faultTolerance.totalLogicalExecutionTime = Infinity
       /\ result.faultTolerance.resourceStateCount = Infinity

\* The estimator has answered for an architecture that declares no
\* two-qubit rate, so that the default, the threshold itself, is used.
InfeasibleAtThresholdWitness ==
    /\ pc = "done"
    /\ call.fn = "ft"
    /\ architecture.gateErrors = NoEntries
    /\ PhysicalErrorRate(architecture) = Rat(1, 100)
    /\ result.faultTolerance.codeDistance = Infinity
    /\ result.faultTolerance.resourceStateCount = Infinity

\* C24: whenever the two-qubit error rate the architecture declares is below
\* the threshold 0.01, a declared rate of 0 included, the fault-tolerance
\* estimator returns a feasible record whose code distance is a finite odd
\* integer of at least 3, whatever integer the rounding up of the distance
\* formula gives.
FeasibleBelowThreshold ==
    (/\ pc = "done"
     /\ call.fn = "ft"
     /\ "two-qubit" \in DOMAIN architecture.gateErrors
     /\ RLess(architecture.gateErrors["two-qubit"], Rat(1, 100)))
    => /\ result.kind = "ok"
       /\ result.faultTolerance.codeDistance \in Nat
       /\ result.faultTolerance.codeDistance < Infinity
       /\ result.faultTolerance.codeDistance % 2 = 1
       /\ result.faultTolerance.codeDistance >= 3

---------------------------------------------------------------------------
(* SpecVolume: one call of the quantum volume estimator.                   *)

MaxVolumeQubits == 5

InitVolume ==
    /\ pc = "ready"
    /\ circuit = [qubits |-> 0, gates |-> <<>>]
    /\ architecture \in
          {[name |-> "arch", qubitCount |-> n,
            connectivity |-> [type |-> "all-to-all"],
            gateErrors |-> e, readoutErrors |-> r,
            t1Times |-> <<>>, t2Times |-> <<>>, gateTimings |-> NoEntries] :
              n \in 0..MaxVolumeQubits,
              e \in { NoEntries, "two-qubit" :> Rat(1, 20), "CX" :> Rat(1, 10),
                      "single-qubit" :> Rat(1, 2), "U3" :> Rat(1, 10) },
              r \in { RateList(<<>>), RateList(<<Rat(1, 10), Rat(1, 20)>>) }}
    /\ call = NoCall
    /\ result = NoResult
    /\ prev = NoResult

\* estimate_quantum_volume(architecture, circuit_width)
EstimateVolume ==
    /\ pc = "ready"
    /\ \E circuitWidth \in (-1)..(MaxVolumeQubits + 1) :
          /\ call' = [fn |-> "volume", circuitWidth |-> circuitWidth]
          /\ \E qv \in estimateQuantumVolumeForCircuit(architecture, circuitWidth) :
                result' = [kind |-> "ok", quantumVolume |-> qv]
    /\ pc' = "done"
    /\ UNCHANGED <<circuit, architecture, prev>>

SpecVolume == InitVolume /\ [][EstimateVolume]_vars

\* The truth values the test  total fidelity > 2/3  can have for the square
\* circuit of width n.
PassesVolumeTest(arch, n) ==
    Above(NarrowAll(WholeInterval, VolumeFactors(arch, n), 1), Rat(2, 3))

\* The largest n of 1..top whose widths 1..n all pass the test, 0 if width
\* 1 fails: the values it can have.
LargestPassing(arch, top) ==
    {m \in 0..top :
        /\ \A n \in 1..m : TRUE \in PassesVolumeTest(arch, n)
        /\ m < top => FALSE \in PassesVolumeTest(arch, m + 1)}

\* C25: estimate_quantum_volume(architecture, circuit_width) returns 2^m, m
\* the largest n of 1..architecture.qubit_count such that every width 1..n
\* passes the test total fidelity > 2/3 (m = 0 and the result 1 if width 1
\* fails); the widths tried run up to architecture.qubit_count whatever
\* circuit_width is, so the result depends on the architecture only.
VolumeOfArchitecture ==
    (pc = "done" /\ call.fn = "volume")
    => \E m \in LargestPassing(architecture, architecture.qubitCount) :
          result.quantumVolume = 2 ^ m

---------------------------------------------------------------------------
(* SpecClassical: a caller that estimates the classical resources of a     *)
(* circuit, widens the circuit by one qubit and estimates again.           *)

MaxClassicalQubits == 1030

InitClassical ==
    /\ pc = "ready"
    /\ circuit \in {[qubits |-> n, gates |-> g] :
                        n \in 0..MaxClassicalQubits,
                        g \in {<<>>, <<Gate("H", <<0>>)>>,
                               <<Gate("h", <<0>>), Gate("cx", <<0, 1>>)>>,
                               <<Gate("H", <<0>>), Gate("T", <<0>>)>>}}
    /\ architecture = DefaultArchitecture
    /\ call = NoCall
    /\ result = NoResult
    /\ prev = NoResult

\* estimate_classical_resources(circuit, mode)
EstimateClassical ==
    /\ pc = "ready"
    /\ \E simulationType \in {"state-vector", "tensor-network", "clifford",
                             "density-matrix"} :
          /\ call' = [fn |-> "classical", simulationType |-> simulationType]
          /\ result' = estimateClassicalResources(circuit, simulationType)
    /\ pc' = "done"
    /\ UNCHANGED <<circuit, architecture, prev>>

\* The caller adds a qubit to the circuit and keeps the last estimate.
Widen ==
    /\ pc = "done"
    /\ circuit.qubits < MaxClassicalQubits
    /\ circuit' = [circuit EXCEPT !.qubits = @ + 1]
    /\ prev' = [kind |-> "estimate", simulationType |-> call.simulationType,
                memoryMB |-> result.memoryMB]
    /\ result' = NoResult
    /\ call' = [fn |-> "widen"]
    /\ pc' = "ready"
    /\ UNCHANGED architecture

SpecClassical == InitClassical /\ [][EstimateClassical \/ Widen]_vars

\* 2 * memory
Twice(memory) ==
    IF memory.nan \/ memory.inf THEN memory ELSE Dyadic(memory.m, memory.e + 1)

\* Two state-vector estimates in a row, of a circuit of n qubits and of the
\* same circuit on n + 1 qubits.
StateVectorPair ==
    /\ pc = "done"
    /\ call.fn = "classical"
    /\ call.simulationType = "state-vector"
    /\ prev.kind = "estimate"
    /\ prev.simulationType = "state-vector"

\* C9 as stated: in state-vector mode, for every qubit count n >= 0,
\* memory_mb(n + 1) = 2 * memory_mb(n).
MemoryDoublesEverywhere ==
    StateVectorPair => result.memoryMB = Twice(prev.memoryMB)

\* C9 as amended: in state-vector mode, for every qubit count n with
\* 16 <= n <= 1018, memory_mb(n + 1) = 2 * memory_mb(n); up to 16 qubits the
\* figure is 1 (whole megabytes, rounded up).
MemoryDoubles ==
    StateVectorPair =>
        /\ (16 <= circuit.qubits - 1 /\ circuit.qubits - 1 <= 1018)
              => result.memoryMB = Twice(prev.memoryMB)
        /\ circuit.qubits - 1 < 16
              => (prev.memoryMB = Dyadic(1, 0) /\ result.memoryMB = Dyadic(1, 0))

\* The estimates of 1018 and of 1019 qubits, the last pair that doubles.
MemoryDoublesWitness ==
    /\ StateVectorPair
    /\ circuit.qubits = 1019
    /\ prev.memoryMB = Dyadic(1, 1002)
    /\ result.memoryMB = Dyadic(1, 1003)

\* Every gate of the circuit has its upper-cased tag in the Clifford set.
AllClifford(c) ==
    \A i \in 1..Len(c.gates) :
        ToUpperCase(c.gates[i].type)
            \in {"X", "Y", "Z", "H", "S", "SDG", "CX", "CY", "CZ", "CNOT", "SWAP"}

\* C26: in clifford mode estimate_classical_resources returns the
\* polynomial-complexity record exactly when every gate of the circuit is in
\* the Clifford set (the empty circuit included); for a circuit with a
\* non-Clifford gate its result, complexity tag and memory, is the result of
\* state-vector mode on the same circuit.
CliffordOrStateVector ==
    (pc = "done" /\ call.fn = "classical" /\ call.simulationType = "clifford")
    => /\ AllClifford(circuit)
            <=> result.complexity = "O(poly(N_q, G_total)) approx O(N_q^2 * G_total)"
       /\ AllClifford(circuit)
            => result.memoryMB
                 = Dyadic(CeilDiv(circuit.qubits * circuit.qubits * 8, 2 ^ 20) + 1, 0)
       /\ ~AllClifford(circuit)
            => /\ result = estimateClassicalResources(circuit, "state-vector")
               /\ result.complexity = "O(G_total * 2^N_q)"

\* A Hadamard and a T gate on 20 qubits in clifford mode: the state-vector
\* figure, 16 megabytes.
CliffordOrStateVectorWitness ==
    /\ pc = "done" /\ call.fn = "classical" /\ call.simulationType = "clifford"
    /\ circuit.qubits = 20
    /\ ~AllClifford(circuit)
    /\ result.memoryMB = Dyadic(16, 0)

---------------------------------------------------------------------------
(* Spec: a caller of the two entry points, analyze and estimate_all, on a  *)
(* circuit and an architecture of its choice.                              *)

ApiOptions ==
    { NoEntries,
      [routingAlgorithm |-> "shortest-path"],
      [enableFaultTolerance |-> TRUE],
      [routingAlgorithm |-> "shortest-path", enableFaultTolerance |-> TRUE,
       targetLogicalErrorRate |-> PFPow(PFOfInt(10), -3), simulationType |-> "clifford"],
      [simulationType |-> "tensor-network"] }

Init ==
    /\ pc = "ready"
    /\ circuit \in
          \* Gate lists: the Bell pair; gates whose index is the qubit count of some
          \* circuit, or beyond every circuit; T gates in both cases; a Toffoli.
          LET gateLists ==
              { <<>>,
                <<Gate("H", <<0>>), Gate("CNOT", <<0, 1>>)>>,
                <<Gate("X", <<5>>)>>,
                <<Gate("CNOT", <<0, 2>>)>>,
                <<Gate("H", <<0>>), Gate("T", <<1>>), Gate("CNOT", <<0, 2>>)>>,
                <<Gate("T", <<0>>), Gate("t", <<0>>)>>,
                <<Gate("H", <<1>>), Gate("CCX", <<0, 1, 2>>)>>,
                <<Gate("CNOT", <<0, 1>>), Gate("H", <<MaxLogical>>)>> }
          IN  {[qubits |-> n, gates |-> g] : n \in 0..MaxLogical, g \in gateLists}
    /\ architecture \in
          \* Architectures: three connectivities, and error tables with nothing
          \* declared, every rate declared 0, and rates declared.
          LET connectivities ==
                  { [type |-> "all-to-all"], [type |-> "linear"],
                    [type |-> "custom", adjacencies |-> << <<1>>, <<2>>, <<>> >>] }
              gateErrors ==
                  { NoEntries,
                    "H" :> RZero @@ "CNOT" :> RZero @@ "single-qubit" :> RZero
                        @@ "two-qubit" :> RZero,
                    "H" :> Rat(1, 500) @@ "two-qubit" :> Rat(1, 200),
                    "single-qubit" :> Rat(1, 20) @@ "two-qubit" :> Rat(1, 10) }
          IN  {[name |-> "arch", qubitCount |-> n, connectivity |-> k,
                gateErrors |-> e, readoutErrors |-> r, t1Times |-> t, t2Times |-> t,
                gateTimings |-> NoEntries] :
                  n \in {2, MaxPhysical}, k \in connectivities, e \in gateErrors,
                  r \in {RateList(<<RZero, RZero>>), RateList(<<Rat(1, 100)>>)},
                  t \in {<<Infinity>>, <<80>>, <<>>}}
    /\ call = NoCall
    /\ result = NoResult
    /\ prev = NoResult

\* estimate_all(circuit, architecture, options); Date.now() answers 1 or 2.
EstimateAll ==
    /\ pc = "ready"
    /\ \E options \in ApiOptions, now \in {1, 2} :
          /\ call' = [fn |-> "estimateAll", options |-> options]
          /\ result' \in estimateAllQuantumResources(circuit, architecture, options, now)
    /\ pc' = "done"
    /\ UNCHANGED <<circuit, architecture, prev>>

Next == Analyze \/ EstimateAll

Spec == Init /\ [][Next]_vars

\* Some gate of the circuit references a qubit index >= circuit.qubits.
SomeIndexOutOfRange ==
    \E i \in 1..Len(circuit.gates) :
        \E k \in 1..Len(circuit.gates[i].qubits) :
            circuit.gates[i].qubits[k] >= circuit.qubits

\* C1: analyze and estimate_all fail with the out-of-range error, and
\* return nothing, for every circuit in which some gate references a qubit
\* index >= circuit.qubits (the index is neither clamped nor skipped); for a
\* circuit with no such gate they do not raise this error.
OutOfRangeFails ==
    (pc = "done" /\ call.fn \in {"analyze", "estimateAll"})
    => (SomeIndexOutOfRange
           <=> (result.kind = "throw" /\ result.error = "OutOfRange"))

\* estimate_all has failed on a gate whose index is the qubit count itself.
OutOfRangeFailsWitness ==
    /\ pc = "done"
    /\ call.fn = "estimateAll"
    /\ circuit = [qubits |-> 2, gates |-> <<Gate("CNOT", <<0, 2>>)>>]
    /\ result.kind = "throw"
    /\ result.error = "OutOfRange"

\* The Bell pair on an all-to-all architecture that declares every gate
\* error and every readout error as zero, with infinite T2.
BellOnIdealArchitecture ==
    /\ circuit = [qubits |-> 2,
                  gates |-> <<Gate("H", <<0>>), Gate("CNOT", <<0, 1>>)>>]
    /\ architecture.connectivity.type = "all-to-all"
    /\ DOMAIN architecture.gateErrors # {}
    /\ \A key \in DOMAIN architecture.gateErrors : architecture.gateErrors[key] = RZero
    /\ ZeroReadoutError(architecture)
    /\ architecture.t2Times = <<Infinity>>

\* C7: for the Bell pair on the ideal architecture estimate_all reports
\* depth 2, 2 gates, 1 two-qubit gate, no SWAP and fidelity 1.0: a declared
\* error rate of zero is used as zero.
BellScenario ==
    (pc = "done" /\ call.fn = "estimateAll" /\ BellOnIdealArchitecture)
    => /\ result.kind = "ok"
       /\ result.circuitDepth = 2
       /\ result.totalGateCount = 2
       /\ result.twoQubitGateCount = 1
       /\ result.swapOverhead.count = 0
       /\ result.circuitFidelity = FidelityOne

\* C14: the T-gate count estimate_all reports is the number of gates whose
\* tag is T or TDG when the letters' case is ignored: 't' and 'tdg' count
\* as 'T' and 'TDG' do.
TGateCountIgnoresCase ==
    (pc = "done" /\ call.fn = "estimateAll" /\ result.kind = "ok")
        => result.tGateCount =
               Cardinality({i \in 1..Len(circuit.gates) :
                               ToUpperCase(circuit.gates[i].type) \in {"T", "TDG"}})

\* C27: in every result of estimate_all the execution time from which the
\* decoherence multiplier of the circuit fidelity is computed is the
\* execution time the result reports: the fidelity is the product of the
\* gate, SWAP and readout factors decayed over the reported time.
FidelityUsesReportedTime ==
    (pc = "done" /\ call.fn = "estimateAll" /\ result.kind = "ok")
        => result.circuitFidelity =
               Decoherence(MultiplyFactors(FidelityOne,
                                           FidelityFactors(circuit, architecture,
                                                           result.swapOverhead.count),
                                           1),
                           result.estimatedExecutionTimePhysical,
                           AverageT2(architecture))

====
